---- MODULE Spec2Model ----
(***************************************************************************)
(* Model of the page chunking core of edu-chunker:                         *)
(*   HTMLParser._create_block / _process_heading  (block extraction)       *)
(*   ChunkBuilder.normalize_blocks_for_chunking   (block normalizer)       *)
(*   ChunkBuilder.build_chunks / _build_one_chunk (packing loop, pass 1)   *)
(*   ChunkBuilder._apply_next_overlap             (pass 2)                 *)
(*   ChunkingStrategy.split_text / take_prefix    (SimpleStrategy, regex   *)
(*                                                 sentence splitter)      *)
(*                                                                         *)
(* Text representation.  A text is a sequence of words; the string it      *)
(* stands for is the words joined by single spaces (the extractor          *)
(* collapses whitespace, and every join in the chunker is ' '.join).       *)
(* A word is an integer:                                                   *)
(*   w >= 0 : the two-letter word number w \div 2, followed by a full stop *)
(*            when w is odd ("ab" or "ab.");                               *)
(*   w < 0  : a literal of the embedding prefix: -1 "[PAGE]",              *)
(*            -2 "[SECTION]", -3 "[TEXT]", -4 ">"; or -5, the word of 201  *)
(*            characters made of 100 letters, a hyphen and 100 letters,    *)
(*            and -6, the first 200 characters of that word.               *)
(* Word numbers are unique inside a page, so that a lost or repeated word  *)
(* is visible.                                                             *)
(***************************************************************************)
EXTENDS Integers, Sequences, FiniteSets, TLC

\* Largest number of blocks the extractor emits for a page.
MaxBlocks == 3

\* Largest number of tokens of a page's block texts.
MaxPageTokens == 16

\* Words of a text handed directly to the chunking strategy.
MaxTextLen == 5

\* Largest max_tokens handed directly to the chunking strategy.
MaxTokensArg == 4

\* Elements and text nodes of a DOM tree below its body.
MaxNodes == 9

\* Text nodes of a DOM tree.
MaxTexts == 4

\* Elements open at once while the markup is read, the body included.
MaxDepth == 7

\* the greatest number of page ids of a run
MaxPageIds == 2

\* Blocks of a page of headings.
MaxHeadings == 5

\* Calls of _get_strategy by one thread, and changes of the setting.
MaxCalls == 3

\* max(10, ...) floor of a content budget.
MinBudget == 10

\* parts[0][:200] / parts[-1][:200] character cut of a partial overlap.
PartialCharLimit == 200

\* None of an Optional[str] id.
NoId == -1

(***************************************************************************)
(* Sequence helpers                                                        *)
(***************************************************************************)

RECURSIVE JoinSp(_)
\* ' '.join(parts) for a list of texts.
JoinSp(parts) ==
    IF parts = <<>> THEN <<>> ELSE Head(parts) \o JoinSp(Tail(parts))

Reverse(s) == [k \in 1..Len(s) |-> s[Len(s) + 1 - k]]

RECURSIVE _dedupe_preserve_order(_)
_dedupe_preserve_order(items) ==
    IF items = <<>> THEN <<>>
    ELSE LET rest == _dedupe_preserve_order(SubSeq(items, 1, Len(items) - 1))
             x == items[Len(items)]
         IN IF \E k \in 1..Len(rest) : rest[k] = x THEN rest ELSE Append(rest, x)

Range(s) == {s[k] : k \in 1..Len(s)}

(***************************************************************************)
(* SimpleStrategy.count_tokens: one token per \w+ run and per punctuation  *)
(* character.                                                              *)
(***************************************************************************)

\* Tokens of one word: "ab" 1, "ab." 2, "[PAGE]" / "[SECTION]" / "[TEXT]" 3,
\* ">" 1, the hyphenated word and its first 200 characters 3.
WordTokens(w) ==
    IF w >= 0 THEN 1 + (w % 2)
    ELSE IF w = -4 THEN 1 ELSE 3

\* Characters of one word.
WordChars(w) ==
    IF w >= 0 THEN 2 + (w % 2)
    ELSE IF w = -4 THEN 1 ELSE IF w = -2 THEN 9
    ELSE IF w = -5 THEN 201 ELSE IF w = -6 THEN 200 ELSE 6

RECURSIVE count_tokens(_)
count_tokens(text) ==
    IF text = <<>> THEN 0
    ELSE WordTokens(Head(text)) + count_tokens(Tail(text))

RECURSIVE SumChars(_)
SumChars(text) ==
    IF text = <<>> THEN 0 ELSE WordChars(Head(text)) + SumChars(Tail(text))

\* len(text) of the string: the words and the single spaces between them.
StrLen(text) == IF text = <<>> THEN 0 ELSE SumChars(text) + Len(text) - 1

(***************************************************************************)
(* Sentence segmentation, regex backend: a sentence ends after a run of    *)
(* .!?... that is followed by white space or the end of the text.          *)
(***************************************************************************)

EndsSentence(w) == w >= 0 /\ w % 2 = 1

RECURSIVE SentenceLoop(_, _, _)
SentenceLoop(text, i, cur) ==
    IF i > Len(text) THEN (IF cur = <<>> THEN <<>> ELSE <<cur>>)
    ELSE IF EndsSentence(text[i])
         THEN <<Append(cur, text[i])>> \o SentenceLoop(text, i + 1, <<>>)
         ELSE SentenceLoop(text, i + 1, Append(cur, text[i]))

_split_sentences_regex(text) == SentenceLoop(text, 1, <<>>)

split_into_sentences(text) == _split_sentences_regex(text)

(***************************************************************************)
(* ChunkingStrategy._split_by_words                                        *)
(***************************************************************************)

RECURSIVE WordsLoop(_, _, _, _)
WordsLoop(words, buf, buf_tokens, max_tokens) ==
    IF words = <<>> THEN (IF buf # <<>> THEN <<buf>> ELSE <<>>)
    ELSE LET word == Head(words)
             wt == count_tokens(<<word>>)
         IN IF buf_tokens + wt > max_tokens /\ buf # <<>>
            THEN <<buf>> \o WordsLoop(Tail(words), <<word>>, wt, max_tokens)
            ELSE WordsLoop(Tail(words), Append(buf, word), buf_tokens + wt, max_tokens)

_split_by_words(text, max_tokens) == WordsLoop(text, <<>>, 0, max_tokens)

(***************************************************************************)
(* ChunkingStrategy.split_text                                             *)
(***************************************************************************)

RECURSIVE SplitLoop(_, _, _, _)
\* buf is the list of buffered sentences.
SplitLoop(sentences, buf, buf_tokens, max_tokens) ==
    IF sentences = <<>> THEN (IF buf # <<>> THEN <<JoinSp(buf)>> ELSE <<>>)
    ELSE LET sent == Head(sentences)
             sent_tok == count_tokens(sent)
         IN IF sent_tok > max_tokens
            THEN (IF buf # <<>> THEN <<JoinSp(buf)>> ELSE <<>>)
                 \o _split_by_words(sent, max_tokens)
                 \o SplitLoop(Tail(sentences), <<>>, 0, max_tokens)
            ELSE IF buf_tokens + sent_tok > max_tokens
                 THEN <<JoinSp(buf)>>
                      \o SplitLoop(Tail(sentences), <<sent>>, sent_tok, max_tokens)
                 ELSE SplitLoop(Tail(sentences), Append(buf, sent),
                                buf_tokens + sent_tok, max_tokens)

split_text(text, max_tokens) ==
    SplitLoop(split_into_sentences(text), <<>>, 0, max_tokens)

(***************************************************************************)
(* ChunkingStrategy.take_prefix: <<prefix, remainder>>                     *)
(***************************************************************************)

\* (word_parts[0], ' '.join(word_parts[1:]) followed by the tail)
WordPrefix(wp, remainder_tail) ==
    <<IF wp # <<>> THEN wp[1] ELSE <<>>,
      (IF Len(wp) > 1 THEN JoinSp(Tail(wp)) ELSE <<>>) \o remainder_tail>>

\* Lines 244-252: the first word group of the sentence that exceeds the
\* budget, and the rest of that sentence followed by the later sentences.
ForcedPrefix(text, wp, remainder_tail) ==
    IF wp = <<>> THEN <<<<>>, text>> ELSE WordPrefix(wp, remainder_tail)

\* Lines 260-270: the prefix of n whole sentences, and the word fallback
\* when nothing was taken although progress is mandatory.
TakePrefixFinish(text, sentences, n, max_tokens, must_take) ==
    LET prefix == JoinSp(SubSeq(sentences, 1, n))
        remainder == JoinSp(SubSeq(sentences, n + 1, Len(sentences)))
    IN IF prefix = <<>> /\ must_take
       THEN WordPrefix(_split_by_words(text, max_tokens), <<>>)
       ELSE <<prefix, remainder>>

RECURSIVE TakePrefixLoop(_, _, _, _, _, _)
\* Lines 234-258: sentences 1..i-1 are in prefix_sents, used is their size.
TakePrefixLoop(text, sentences, i, used, max_tokens, must_take) ==
    IF i > Len(sentences)
    THEN TakePrefixFinish(text, sentences, i - 1, max_tokens, must_take)
    ELSE LET st == count_tokens(sentences[i])
         IN IF st > max_tokens
            THEN IF ~must_take
                 THEN TakePrefixFinish(text, sentences, i - 1, max_tokens, must_take)
                 ELSE ForcedPrefix(text, _split_by_words(sentences[i], max_tokens),
                                   JoinSp(SubSeq(sentences, i + 1, Len(sentences))))
            ELSE IF used + st <= max_tokens
                 THEN TakePrefixLoop(text, sentences, i + 1, used + st,
                                     max_tokens, must_take)
                 ELSE TakePrefixFinish(text, sentences, i - 1, max_tokens, must_take)

\* Lines 222-258 for the sentences of the text.
TakePrefixOf(text, sentences, max_tokens, must_take) ==
    IF sentences = <<>>
    THEN IF must_take
         THEN WordPrefix(_split_by_words(text, max_tokens), <<>>)
         ELSE <<<<>>, text>>
    ELSE TakePrefixLoop(text, sentences, 1, 0, max_tokens, must_take)

take_prefix(text, max_tokens, must_take) ==
    IF text = <<>> THEN <<<<>>, <<>>>>
    ELSE TakePrefixOf(text, split_into_sentences(text), max_tokens, must_take)

(***************************************************************************)
(* State                                                                   *)
(***************************************************************************)

VARIABLES
    pc,              \* "parse" | "build" | "done": position in process_page
    cfg,             \* settings: chunk_size, chunk_overlap, max_heading_levels,
                     \*           include_page_tag, include_section_tag
    blocks,          \* the page's ContentBlock list (mutated in place)
    headings,        \* the page's HeadingInfo list
    _heading_stack,  \* HTMLParser._heading_stack
    _block_counter,  \* HTMLParser._block_counter
    _text_offset,    \* HTMLParser._text_offset
    chunks,          \* build_chunks: chunks
    pos,             \* build_chunks: pos
    pending,         \* build_chunks: pending (_PendingBlock or NoPending)
    parsed,          \* history: the block list as the extractor returned it
    cuts,            \* history: every cut of a block into separate blocks
    call,            \* a direct call of a function of the library: its
                     \* arguments and, once it has returned, its result
    threads,         \* the worker threads of the pipeline: the page of the
                     \* running process_page, the pages queued behind it,
                     \* the suspended thread and the results put so far
    soup             \* the DOM tree BeautifulSoup builds from the markup:
                     \* the elements still open, the body first

vars == <<pc, cfg, blocks, headings, _heading_stack, _block_counter,
          _text_offset, chunks, pos, pending, parsed, cuts, call, threads,
                   soup>>

\* page_title: the one-word title "aa".
page_title == <<0>>

heading_tags == {"h1", "h2", "h3", "h4", "h5", "h6"}

\* int(tag[1])
HeadingLevel(tag) ==
    CASE tag = "h1" -> 1 [] tag = "h2" -> 2 [] tag = "h3" -> 3
      [] tag = "h4" -> 4 [] tag = "h5" -> 5 [] tag = "h6" -> 6

NoPending == [block_pos |-> NoId, remaining_text |-> <<>>, start_char |-> 0]

\* No function of the library is called directly.
NoCall == [op |-> "none"]

\* process_page is called once, outside the pipeline.
NoThreads == [on |-> FALSE]

\* No markup is parsed: the blocks of the page are given.
NoSoup == [open |-> <<>>, nodes |-> 0, texts |-> 0]

\* blocks[k] of the 0-based Python list.
At(list, k) == list[k + 1]

(***************************************************************************)
(* Inputs: configurations and block texts                                  *)
(***************************************************************************)

\* Settings accepted by Settings.validate (0 <= overlap < size, levels > 0).
Configs ==
    { [chunk_size |-> 3, chunk_overlap |-> 2, max_heading_levels |-> 2,
       include_page_tag |-> FALSE, include_section_tag |-> FALSE],
      [chunk_size |-> 12, chunk_overlap |-> 0, max_heading_levels |-> 1,
       include_page_tag |-> TRUE, include_section_tag |-> TRUE],
      [chunk_size |-> 16, chunk_overlap |-> 3, max_heading_levels |-> 2,
       include_page_tag |-> TRUE, include_section_tag |-> TRUE] }

\* A text shape lists its sentences: n > 0 is a sentence of n words that ends
\* with a full stop, n < 0 a run of -n words without one.
ParagraphShapes ==
    { <<1>>, <<-2>>, <<1, -3>>, <<-11>>, <<3, 3, 3>> }

HeadingShapes == { <<-1>>, <<-12>> }

HeadingTags == {"h1", "h2"}

Abs(n) == IF n < 0 THEN -n ELSE n

\* Words p0+1 .. p0+|n| of block k; word numbers are k * 16 + position.
ShapeSentence(k, p0, n) ==
    [j \in 1..Abs(n) |->
        2 * (k * 16 + p0 + j) + (IF n > 0 /\ j = n THEN 1 ELSE 0)]

RECURSIVE ShapeText(_, _, _)
ShapeText(k, p0, shape) ==
    IF shape = <<>> THEN <<>>
    ELSE ShapeSentence(k, p0, Head(shape))
         \o ShapeText(k, p0 + Abs(Head(shape)), Tail(shape))

(***************************************************************************)
(* HTMLParser: block emission                                              *)
(***************************************************************************)

RECURSIVE PageTokens(_)
\* The tokens of all block texts of a page.
PageTokens(bs) ==
    IF bs = <<>> THEN 0 ELSE count_tokens(Head(bs).text) + PageTokens(Tail(bs))

\* HTMLParser._create_block: the new block.
_create_block(text, block_type) ==
    [index |-> _block_counter,
     id |-> _block_counter,
     block_type |-> block_type,
     text |-> text,
     text_offset |-> _text_offset,
     text_length |-> StrLen(text),
     parent_heading_id |->
        IF _heading_stack # <<>>
        THEN _heading_stack[Len(_heading_stack)].block_id ELSE NoId]

RECURSIVE StackBelow_OrEqual(_, _)
\* The headings of the same level stay on the stack.
StackBelow_OrEqual(stack, level) ==
    IF stack = <<>> THEN <<>>
    ELSE IF Head(stack).level <= level
         THEN <<Head(stack)>> \o StackBelow_OrEqual(Tail(stack), level)
         ELSE StackBelow_OrEqual(Tail(stack), level)

\* [h for h in stack if h.level < level]
RECURSIVE StackBelow(_, _)
StackBelow(stack, level) ==
    IF stack = <<>> THEN <<>>
    ELSE IF Head(stack).level < level
         THEN <<Head(stack)>> \o StackBelow(Tail(stack), level)
         ELSE StackBelow(Tail(stack), level)

Init ==
    /\ pc = "parse"
    /\ cfg \in Configs
    /\ blocks = <<>>
    /\ headings = <<>>
    /\ _heading_stack = <<>>
    /\ _block_counter = 0
    /\ _text_offset = 0
    /\ chunks = <<>>
    /\ pos = 0
    /\ pending = NoPending
    /\ parsed = <<>>
    /\ cuts = {}
    /\ call = NoCall
    /\ threads = NoThreads
    /\ soup = NoSoup

\* _process_block on a leaf element (p, li, tr, ...): one block.
ProcessBlock ==
    /\ pc = "parse"
    /\ _block_counter < MaxBlocks
    /\ \E shape \in ParagraphShapes :
          LET text == ShapeText(_block_counter, 0, shape)
              block == _create_block(text, "p")
          IN /\ PageTokens(blocks) + count_tokens(text) <= MaxPageTokens
             /\ blocks' = Append(blocks, block)
             /\ _block_counter' = _block_counter + 1
             /\ _text_offset' = _text_offset + StrLen(text) + 1
             /\ parsed' = Append(parsed, block)
    /\ UNCHANGED <<pc, cfg, headings, _heading_stack, chunks, pos, pending, cuts,
                   call, threads,
                   soup>>

\* _process_heading: one heading block, the heading list and the stack.
ProcessHeading ==
    /\ pc = "parse"
    /\ _block_counter < MaxBlocks
    /\ \E tag \in HeadingTags, shape \in HeadingShapes :
          LET text == ShapeText(_block_counter, 0, shape)
              block == _create_block(text, tag)
              info == [level |-> HeadingLevel(tag), text |-> text,
                       block_id |-> block.id, block_index |-> block.index]
          IN /\ PageTokens(blocks) + count_tokens(text) <= MaxPageTokens
             /\ blocks' = Append(blocks, block)
             /\ _block_counter' = _block_counter + 1
             /\ _text_offset' = _text_offset + StrLen(text) + 1
             /\ headings' = Append(headings, info)
             /\ _heading_stack' =
                    Append(StackBelow(_heading_stack, info.level), info)
             /\ parsed' = Append(parsed, block)
    /\ UNCHANGED <<pc, cfg, chunks, pos, pending, cuts, call, threads,
                   soup>>

(***************************************************************************)
(* Heading hierarchy and embedding tags                                    *)
(* A heading index (Dict[int, HeadingInfo]) is the sequence of its values  *)
(* in insertion order; its keys are the block_index fields.                *)
(***************************************************************************)

RECURSIVE _build_heading_idx_from_blocks(_)
_build_heading_idx_from_blocks(bs) ==
    IF bs = <<>> THEN <<>>
    ELSE LET b == Head(bs)
         IN (IF b.block_type \in heading_tags
             THEN <<[level |-> HeadingLevel(b.block_type), text |-> b.text,
                     block_id |-> b.id, block_index |-> b.index]>>
             ELSE <<>>)
            \o _build_heading_idx_from_blocks(Tail(bs))

\* The headings before `current` of the same level are candidates too.
ClimbCandidates_SameLevel(current, heading_idx) ==
    {k \in 1..Len(heading_idx) :
        /\ heading_idx[k].level <= current.level
        /\ heading_idx[k].block_index < current.block_index}

\* The headings above `current`: smaller level and smaller block index.
ClimbCandidates(current, heading_idx) ==
    {k \in 1..Len(heading_idx) :
        /\ heading_idx[k].level < current.level
        /\ heading_idx[k].block_index < current.block_index}

\* The earliest candidate instead of the nearest.
BestCandidate_Earliest(cand, heading_idx) ==
    heading_idx[CHOOSE k \in cand :
                    \A m \in cand :
                        heading_idx[k].block_index <= heading_idx[m].block_index]

\* max(candidates, key=block_index): the first of the largest block index.
BestCandidate(cand, heading_idx) ==
    heading_idx[CHOOSE k \in cand :
                    \A m \in cand :
                        \/ heading_idx[m].block_index < heading_idx[k].block_index
                        \/ (heading_idx[m].block_index = heading_idx[k].block_index
                            /\ k <= m)]

RECURSIVE ClimbLoop(_, _)
RECURSIVE ClimbFrom(_, _)
\* The chain from `best` upwards.
ClimbFrom(best, heading_idx) == <<best>> \o ClimbLoop(best, heading_idx)

\* The chain above `current`, nearest first.
ClimbLoop(current, heading_idx) ==
    IF ClimbCandidates(current, heading_idx) = {} THEN <<>>
    ELSE ClimbFrom(BestCandidate(ClimbCandidates(current, heading_idx),
                                 heading_idx),
                   heading_idx)

\* [h.text for h in chain]
ChainTexts(chain) == [k \in 1..Len(chain) |-> chain[k].text]

_climb_hierarchy(start, heading_idx) ==
    ChainTexts(<<start>> \o ClimbLoop(start, heading_idx))

FirstN(s, n) == SubSeq(s, 1, IF n < Len(s) THEN n ELSE Len(s))

\* (hierarchy, hierarchy[:max_heading_levels])
HierarchyPair(hierarchy, max_heading_levels) ==
    <<hierarchy, FirstN(hierarchy, max_heading_levels)>>

\* <<full hierarchy, text hierarchy>> for a chunk whose first block is `first`.
_build_heading_hierarchy(first, heading_idx, max_heading_levels) ==
    LET own == {k \in 1..Len(heading_idx) :
                    heading_idx[k].block_index = first.index}
        byref == {k \in 1..Len(heading_idx) :
                    heading_idx[k].block_id = first.parent_heading_id}
    IN IF own # {}
       THEN HierarchyPair(
                _climb_hierarchy(
                    heading_idx[CHOOSE k \in own : \A m \in own : m <= k],
                    heading_idx),
                max_heading_levels)
       ELSE IF first.parent_heading_id # NoId /\ byref # {}
            THEN HierarchyPair(
                     _climb_hierarchy(
                         heading_idx[CHOOSE k \in byref : \A m \in byref : k <= m],
                         heading_idx),
                     max_heading_levels)
            ELSE <<<<>>, <<>>>>

RECURSIVE JoinGt(_)
\* ' > '.join(hierarchy)
JoinGt(hier) ==
    IF hier = <<>> THEN <<>>
    ELSE IF Len(hier) = 1 THEN hier[1]
         ELSE hier[1] \o <<-4>> \o JoinGt(Tail(hier))

\* The "[PAGE] ..." and "[SECTION] ..." lines for a hierarchy.
TagParts(c, hierarchy) ==
    (IF c.include_page_tag THEN <<-1>> \o page_title ELSE <<>>)
    \o (IF c.include_section_tag /\ hierarchy # <<>>
        THEN <<-2>> \o JoinGt(hierarchy) ELSE <<>>)

_build_embedding_text(c, hierarchy, chunk_text) ==
    LET parts == TagParts(c, hierarchy)
    IN IF parts = <<>> THEN chunk_text ELSE parts \o <<-3>> \o chunk_text

\* Lines 1094-1107: the tokens of the tag lines for the hierarchy pair.
TagsEstimate(c, hier) ==
    LET parts == TagParts(c, hier[2])
        tag_text == IF parts # <<>> THEN parts \o <<-3>> ELSE <<>>
    IN [tokens |-> count_tokens(tag_text), full_hier |-> hier[1],
        text_hier |-> hier[2]]

\* [tokens, full_hier, text_hier]
_estimate_tags_tokens_exact(c, bs, start, heading_idx, ov_prev_indices) ==
    TagsEstimate(c,
        _build_heading_hierarchy(
            IF ov_prev_indices # <<>>
            THEN At(bs, ov_prev_indices[1]) ELSE At(bs, start),
            heading_idx, c.max_heading_levels))

(***************************************************************************)
(* ChunkBuilder.normalize_blocks_for_chunking                              *)
(***************************************************************************)

Max(a, b) == IF a >= b THEN a ELSE b

\* Lines 226-238: the budget of an empty chunk that starts at position p.
NormalizeBudget(c, bs, hs, p) ==
    Max(MinBudget,
        c.chunk_size - _estimate_tags_tokens_exact(c, bs, p, hs, <<>>).tokens
            - (2 * (IF c.chunk_overlap > 0 THEN c.chunk_overlap ELSE 0)))

\* Lines 247-258: the parts of the split, or the text itself.
PartsOrText(text, parts) ==
    SelectSeq(IF parts = <<>> THEN <<text>> ELSE parts,
              LAMBDA part : part # <<>>)

\* Lines 204-258: the parts block b is cut into under `budget` (one part
\* when it is kept).
PartsWithin(b, budget) ==
    IF b.text = <<>> THEN <<>>
    ELSE IF b.block_type \in heading_tags THEN <<b.text>>
    ELSE IF count_tokens(b.text) <= budget THEN <<b.text>>
    ELSE PartsOrText(b.text, split_text(b.text, budget))

NormalizeParts(c, bs, hs, p) ==
    PartsWithin(At(bs, p), NormalizeBudget(c, bs, hs, p))

\* Lines 260-275: the _Piece records of block b.
PiecesOf(b, parts) ==
    [k \in 1..Len(parts) |->
        [orig_index |-> b.index, orig_id |-> b.id,
         orig_parent_heading_id |-> b.parent_heading_id,
         block_type |-> b.block_type, text |-> parts[k]]]

RECURSIVE NormalizePieces(_, _, _, _)
\* The _Piece list of blocks p .. end.
NormalizePieces(c, bs, hs, p) ==
    IF p >= Len(bs) THEN <<>>
    ELSE PiecesOf(At(bs, p), NormalizeParts(c, bs, hs, p))
         \o NormalizePieces(c, bs, hs, p + 1)

RECURSIVE OffsetBefore(_, _)
\* text_offset of piece k: the sum of len(text) + 1 over the pieces before it.
OffsetBefore(pieces, k) ==
    IF k <= 1 THEN 0
    ELSE OffsetBefore(pieces, k - 1) + StrLen(pieces[k - 1].text) + 1

\* Lines 285-315 and 318-320: the re-indexed blocks with remapped parents.
NormalizeBlocks(pieces) ==
    LET isH(k) == pieces[k].block_type \in heading_tags
        hk == {k \in 1..Len(pieces) : isH(k)}
        \* old_heading_id_to_new: the last heading piece written for an old id
        mapped(oid) == {k \in hk : pieces[k].orig_id = oid}
        newId(oid) == (CHOOSE k \in mapped(oid) : \A m \in mapped(oid) : m <= k) - 1
    IN [k \in 1..Len(pieces) |->
          [index |-> k - 1,
           id |-> k - 1,
           block_type |-> pieces[k].block_type,
           text |-> pieces[k].text,
           text_offset |-> OffsetBefore(pieces, k),
           text_length |-> StrLen(pieces[k].text),
           parent_heading_id |->
              LET ph == pieces[k].orig_parent_heading_id
              IN IF ph # NoId /\ mapped(ph) # {} THEN newId(ph) ELSE ph]]

\* Lines 323-336: the heading list in the new numbering.
NormalizeHeadings(pieces, hs) ==
    LET hk == {k \in 1..Len(pieces) : pieces[k].block_type \in heading_tags}
        byId(oid) == {k \in hk : pieces[k].orig_id = oid}
        byIndex(oi) == {k \in hk : pieces[k].orig_index = oi}
        last(S) == CHOOSE k \in S : \A m \in S : m <= k
        kept == SelectSeq(hs, LAMBDA h : byId(h.block_id) # {})
    IN [k \in 1..Len(kept) |->
          [level |-> kept[k].level, text |-> kept[k].text,
           block_id |-> last(byId(kept[k].block_id)) - 1,
           block_index |-> last(byIndex(kept[k].block_index)) - 1]]

\* The cuts between the parts of one block: the words on both sides.
CutsOfParts(whole, parts, budget, must_take) ==
    {[by |-> "normalize",
      whole |-> whole,
      left |-> parts[k][Len(parts[k])],
      right |-> parts[k + 1][1],
      budget |-> budget,
      must_take |-> must_take] : k \in 1..(Len(parts) - 1)}

\* The cuts of block b under `budget`.
CutsWithin(b, budget) == CutsOfParts(b.text, PartsWithin(b, budget), budget, TRUE)

\* blocks[:] = norm_blocks; headings = norm_headings
NormalizeStore(pieces) ==
    /\ blocks' = NormalizeBlocks(pieces)
    /\ headings' = NormalizeHeadings(pieces, headings)

\* create_chunks_from_page, first half: normalize and replace blocks[:].
Normalize ==
    /\ pc = "parse"
    /\ blocks # <<>>
    /\ NormalizeStore(NormalizePieces(cfg, blocks, headings, 0))
    /\ cuts' = cuts \cup UNION {
          CutsWithin(At(blocks, p), NormalizeBudget(cfg, blocks, headings, p))
          : p \in 0..(Len(blocks) - 1)}
    /\ pc' = "build"
    /\ pos' = 0
    /\ pending' = NoPending
    /\ chunks' = <<>>
    /\ UNCHANGED <<cfg, _heading_stack, _block_counter, _text_offset, parsed,
                   call, threads,
                   soup>>

(***************************************************************************)
(* Overlap collection                                                      *)
(***************************************************************************)

RECURSIVE TruncChars(_, _)
\* text[:n] on the string, for a cut that falls between two words or that
\* takes the first 200 characters of the word of 201.
TruncChars(text, n) ==
    IF text = <<>> \/ StrLen(text) <= n THEN text
    ELSE IF text = <<-5>> /\ n = 200 THEN <<-6>>
    ELSE TruncChars(SubSeq(text, 1, Len(text) - 1), n)

RECURSIVE TakeWhileFit(_, _)
\* The leading parts taken while each fits the budget that is left.
TakeWhileFit(parts, budget) ==
    IF parts = <<>> THEN <<>>
    ELSE LET pt == count_tokens(Head(parts))
         IN IF pt <= budget
            THEN <<Head(parts)>> \o TakeWhileFit(Tail(parts), budget - pt)
            ELSE <<>>

\* Lines 893-916: the parts taken from the asked end while they fit.
PartialOfParts(parts, max_tokens, from_end) ==
    IF parts = <<>> THEN <<>>
    ELSE IF from_end
         THEN IF TakeWhileFit(Reverse(parts), max_tokens) # <<>>
              THEN JoinSp(Reverse(TakeWhileFit(Reverse(parts), max_tokens)))
              ELSE TruncChars(parts[Len(parts)], PartialCharLimit)
         ELSE IF TakeWhileFit(parts, max_tokens) # <<>>
              THEN JoinSp(TakeWhileFit(parts, max_tokens))
              ELSE TruncChars(parts[1], PartialCharLimit)

_extract_partial_text(text, max_tokens, from_end) ==
    PartialOfParts(split_text(text, max_tokens), max_tokens, from_end)

\* Lines 789-800: the fragment with the partial text, when there is one.
PartialFragment(frag, partial) ==
    IF partial # <<>> THEN <<[frag EXCEPT !.text = partial]>> ELSE <<>>

RECURSIVE CollectLoop(_, _, _)
\* Lines 776-800: the collected fragments, in traversal order.
CollectLoop(frags, remaining, from_end) ==
    IF frags = <<>> \/ remaining <= 0 THEN <<>>
    ELSE LET frag == Head(frags)
             \* int(frag.get('block_index') or -1): index 0 reads as -1
             idx == IF frag.block_index = 0 THEN -1 ELSE frag.block_index
             text == frag.text
             bt == count_tokens(text)
         IN IF idx < 0 \/ text = <<>>
            THEN CollectLoop(Tail(frags), remaining, from_end)
            ELSE IF bt <= remaining
                 THEN <<frag>> \o CollectLoop(Tail(frags), remaining - bt, from_end)
                 ELSE PartialFragment(frag,
                          _extract_partial_text(text, remaining, from_end))

NoOverlap == [indices |-> <<>>, text |-> <<>>, frags |-> <<>>]

\* Lines 802-813: indices, text and fragments of what was collected.
CollectedOverlap(collected) ==
    IF collected = <<>> THEN NoOverlap
    ELSE [indices |-> _dedupe_preserve_order(
                         [k \in 1..Len(collected) |-> collected[k].block_index]),
          text |-> JoinSp([k \in 1..Len(collected) |-> collected[k].text]),
          frags |-> collected]

_collect_overlap_text(c, source_fragments, from_end) ==
    IF source_fragments = <<>> \/ c.chunk_overlap <= 0 THEN NoOverlap
    ELSE IF from_end
         THEN CollectedOverlap(Reverse(CollectLoop(Reverse(source_fragments),
                                                   c.chunk_overlap, from_end)))
         ELSE CollectedOverlap(CollectLoop(source_fragments,
                                           c.chunk_overlap, from_end))

(***************************************************************************)
(* Materialized split                                                      *)
(***************************************************************************)

RECURSIVE OffsetAt(_, _)
OffsetAt(bs, k) ==
    IF k <= 1 THEN 0 ELSE OffsetAt(bs, k - 1) + StrLen(bs[k - 1].text) + 1

\* A forgotten recomputation: the offsets stay as they are.
_recompute_text_offsets_Skipped(bs) == bs

_recompute_text_offsets(bs) ==
    [k \in 1..Len(bs) |-> [bs[k] EXCEPT !.text_offset = OffsetAt(bs, k)]]

\* The block at split_pos keeps its whole text next to the remainder block.
InsertRemainder_KeepText(bs, split_pos, prefix_text, remainder_text) ==
    LET cur == At(bs, split_pos)
    IN SubSeq(bs, 1, split_pos + 1)
       \o <<[cur EXCEPT !.index = split_pos + 1, !.id = split_pos + 1,
                        !.text = remainder_text,
                        !.text_length = StrLen(remainder_text),
                        !.text_offset = 0]>>
       \o SubSeq(bs, split_pos + 2, Len(bs))

\* Lines 400-418: the block at split_pos becomes the prefix, the remainder
\* block is inserted right after it.
InsertRemainder(bs, split_pos, prefix_text, remainder_text) ==
    LET cur == [At(bs, split_pos) EXCEPT !.text = prefix_text,
                                         !.text_length = StrLen(prefix_text)]
        remainder_block ==
            [index |-> split_pos + 1,
             id |-> split_pos + 1,
             block_type |-> cur.block_type,
             text |-> remainder_text,
             text_offset |-> 0,
             text_length |-> StrLen(remainder_text),
             parent_heading_id |-> cur.parent_heading_id]
    IN SubSeq(bs, 1, split_pos) \o <<cur, remainder_block>>
       \o SubSeq(bs, split_pos + 2, Len(bs))

\* The tail keeps the numbers it had before the insertion.
RenumberTail_Stale(ins, split_pos) == ins

\* Lines 420-437: index and id of the blocks from split_pos+1 on, and the
\* parent_heading_id of those that refer to a heading that moved.
RenumberTail(ins, split_pos) ==
    LET tail == (split_pos + 1)..(Len(ins) - 1)
        \* heading_id_map: old id -> new id, the last write for a key wins
        keys(oid) == {j \in tail : /\ At(ins, j).block_type \in heading_tags
                                   /\ At(ins, j).id = oid}
        heading_id_map(oid) == CHOOSE j \in keys(oid) : \A m \in keys(oid) : m <= j
    IN [k \in 1..Len(ins) |->
          IF k - 1 < split_pos + 1 THEN ins[k]
          ELSE [ins[k] EXCEPT
                  !.index = k - 1,
                  !.id = k - 1,
                  !.parent_heading_id =
                      IF @ # NoId /\ keys(@) # {}
                      THEN heading_id_map(@) ELSE @]]

_materialize_block_split(bs, split_pos, prefix_text, remainder_text) ==
    _recompute_text_offsets(
        RenumberTail(InsertRemainder(bs, split_pos, prefix_text, remainder_text),
                     split_pos))

(***************************************************************************)
(* ChunkBuilder._build_one_chunk                                           *)
(***************************************************************************)

_make_fragment(block, text, start_char, end_char) ==
    [block_index |-> block.index,
     block_id |-> block.id,
     block_type |-> block.block_type,
     text_offset |-> block.text_offset + start_char,
     text_length |-> StrLen(text),
     fragment_start |-> start_char,
     fragment_end |-> end_char,
     text |-> text]

\* Progress is never forced, not even for an empty chunk.
_take_prefix_NeverForced(text, max_tokens, must_take) ==
    take_prefix(text, max_tokens, FALSE)

\* Progress is forced whether or not the chunk already holds content.
_take_prefix_Forced(text, max_tokens, must_take) ==
    take_prefix(text, max_tokens, TRUE)

_take_prefix(text, max_tokens, must_take) == take_prefix(text, max_tokens, must_take)

\* Lines 595-599 / 618-622: one fragment added to the core.
AddCore(st, block, frag_text, frag_start) ==
    [st EXCEPT
        !.core_texts = Append(@, frag_text),
        !.core_fragments = Append(@, _make_fragment(block, frag_text, frag_start,
                                        frag_start + StrLen(frag_text))),
        !.core_indices = IF block.index \in Range(@) THEN @
                         ELSE Append(@, block.index),
        !.budget = @ - count_tokens(frag_text)]

RECURSIVE PackLoop(_)
RECURSIVE PackPrefix(_, _, _, _, _, _)
\* Lines 606-652: the block does not fit; frag_text and remainder are what
\* _take_prefix returned, taken is the state with frag_text added to the core.
PackPrefix(st, cur_text, frag_start, frag_text, remainder, taken) ==
    IF frag_text = <<>> THEN st
    ELSE IF remainder = <<>>
    THEN PackLoop([taken EXCEPT !.pending_state = NoPending, !.i = @ + 1])
    ELSE IF st.pending_state # NoPending
    THEN PackLoop([taken EXCEPT !.pending_state =
                     [block_pos |-> st.i, remaining_text |-> remainder,
                      start_char |-> frag_start + StrLen(frag_text) + 1]])
    ELSE [taken EXCEPT
             !.blocks = _materialize_block_split(st.blocks, st.i,
                                                 frag_text, remainder),
             !.pending_state = NoPending,
             !.i = @ + 1,
             !.cuts = @ \cup {[by |-> "pack",
                               whole |-> cur_text,
                               left |-> frag_text[Len(frag_text)],
                               right |-> remainder[1],
                               budget |-> st.budget,
                               must_take |-> (st.core_texts = <<>>)]}]

RECURSIVE PackTaken(_, _, _, _, _)
\* tp is the pair _take_prefix returned for cur_text.
PackTaken(st, block, cur_text, frag_start, tp) ==
    PackPrefix(st, cur_text, frag_start, tp[1], tp[2],
               AddCore(st, block, tp[1], frag_start))

\* Lines 572-652: the while loop over the blocks from i.
PackLoop(st) ==
    IF ~(st.i < Len(st.blocks) /\ st.budget > 0) THEN st
    ELSE
    LET block == At(st.blocks, st.i)
        inPending == st.pending_state # NoPending /\ st.pending_state.block_pos = st.i
        cur_text == IF inPending THEN st.pending_state.remaining_text ELSE block.text
        frag_start == IF inPending THEN st.pending_state.start_char ELSE 0
        bt == count_tokens(cur_text)
        must_take == (st.core_texts = <<>>)
    IN IF cur_text = <<>>
       THEN PackLoop([st EXCEPT !.pending_state = NoPending, !.i = @ + 1])
       ELSE IF bt <= st.budget
       THEN PackLoop([AddCore(st, block, cur_text, frag_start)
                        EXCEPT !.pending_state = NoPending, !.i = @ + 1])
       ELSE PackTaken(st, block, cur_text, frag_start,
                      _take_prefix(cur_text, st.budget, must_take))

\* The reserve is given up before the prev-overlap.
ChunkBudget_ReserveFirst(c, tags_tokens, ov_prev_tokens) ==
    LET next_ov_reserve == IF c.chunk_overlap > 0 THEN c.chunk_overlap ELSE 0
        b0 == c.chunk_size - tags_tokens - ov_prev_tokens - next_ov_reserve
        b1 == c.chunk_size - tags_tokens - ov_prev_tokens
        b2 == c.chunk_size - tags_tokens
    IN [initial |-> b0,
        drop_prev |-> b0 <= 0 /\ b1 <= 0,
        budget |-> IF b0 > 0 THEN b0
                   ELSE IF b1 > 0 THEN b1
                   ELSE IF b2 > 0 THEN b2
                   ELSE Max(MinBudget, c.chunk_size \div 4)]

\* Lines 553-565: the content budget and what was given up for it.
ChunkBudget(c, tags_tokens, ov_prev_tokens) ==
    LET next_ov_reserve == IF c.chunk_overlap > 0 THEN c.chunk_overlap ELSE 0
        b0 == c.chunk_size - tags_tokens - ov_prev_tokens - next_ov_reserve
        b1 == c.chunk_size - tags_tokens - next_ov_reserve
        b2 == c.chunk_size - tags_tokens
    IN [initial |-> b0,
        drop_prev |-> b0 <= 0,
        budget |-> IF b0 > 0 THEN b0
                   ELSE IF b1 > 0 THEN b1
                   ELSE IF b2 > 0 THEN b2
                   ELSE Max(MinBudget, c.chunk_size \div 4)]

\* Lines 519-538: the prev-overlap taken from the last chunk built.
PrevOverlap(c, done) ==
    IF done # <<>> /\ c.chunk_overlap > 0
    THEN _collect_overlap_text(c, done[Len(done)].core_fragments, TRUE)
    ELSE NoOverlap

\* Lines 550-565: the budget for the prev-overlap ov and the tags.
StartBudget(c, ov, tags) ==
    [ov |-> ov, tags |-> tags,
     bud |-> ChunkBudget(c, tags.tokens, count_tokens(ov.text))]

\* Lines 540-548: the tags for the prev-overlap ov.
StartTags(c, bs, start, heading_idx, ov) ==
    StartBudget(c, ov,
                _estimate_tags_tokens_exact(c, bs, start, heading_idx, ov.indices))

\* Lines 519-565: prev-overlap, tags and budget of the chunk that starts at
\* `start` after the chunks `done`.
ChunkStart(c, bs, start, heading_idx, done) ==
    StartTags(c, bs, start, heading_idx, PrevOverlap(c, done))

\* Lines 654-738: the chunk of the packed state st, when anything was packed.
PackedChunk(c, cstart, st) ==
    LET ov == cstart.ov
        tags == cstart.tags
        bud == cstart.bud
        ov_prev_indices == IF bud.drop_prev THEN <<>> ELSE ov.indices
        ov_prev_text == IF bud.drop_prev THEN <<>> ELSE ov.text
        normalized_text == JoinSp(st.core_texts)
        full_text == ov_prev_text \o normalized_text
        first_frag == st.core_fragments[1]
        core_indices == st.core_indices
        ov_prev_indices_filtered ==
            SelectSeq(ov_prev_indices, LAMBDA x : x \notin Range(core_indices))
        is_partial_chunk ==
            first_frag.fragment_start # 0 \/ st.pending_state # NoPending
        text_offset_start == first_frag.text_offset
        chunk_id_base == <<core_indices[1], core_indices[Len(core_indices)]>>
    IN IF st.core_texts = <<>>
       THEN [made |-> FALSE, chunk |-> <<>>, pos |-> Len(st.blocks),
             pending |-> NoPending, blocks |-> st.blocks, cuts |-> st.cuts]
       ELSE [made |-> TRUE,
             chunk |->
               [chunk_id |-> IF is_partial_chunk
                             THEN chunk_id_base \o
                                  <<text_offset_start,
                                    text_offset_start + StrLen(normalized_text)>>
                             ELSE chunk_id_base,
                block_indices |->
                    _dedupe_preserve_order(ov_prev_indices_filtered \o core_indices),
                core_block_indices |-> core_indices,
                overlap_prev_block_indices |-> ov_prev_indices_filtered,
                overlap_next_block_indices |-> <<>>,
                full_heading_hierarchy |-> tags.full_hier,
                text_heading_hierarchy |-> tags.text_hier,
                normalized_text |-> normalized_text,
                overlap_prev_text |-> ov_prev_text,
                overlap_next_text |-> <<>>,
                full_text |-> full_text,
                embedding_text |-> _build_embedding_text(c, tags.text_hier, full_text),
                text_offset_start |-> text_offset_start,
                text_length |-> StrLen(normalized_text),
                core_fragments |-> st.core_fragments,
                overlap_prev_fragments |-> ov.frags,
                \* history: the budget of line 553, before any degradation
                initial_budget |-> bud.initial],
             pos |-> st.i, pending |-> st.pending_state,
             blocks |-> st.blocks, cuts |-> st.cuts]

\* Lines 567-652: the pack loop run from the budget of cstart.
PackFrom(c, cstart, bs, start, pend, cs) ==
    PackedChunk(c, cstart,
        PackLoop([blocks |-> bs, i |-> start, budget |-> cstart.bud.budget,
                  core_fragments |-> <<>>, core_indices |-> <<>>,
                  core_texts |-> <<>>, pending_state |-> pend, cuts |-> cs]))

\* The result of _build_one_chunk: [made, chunk, pos, pending, blocks, cuts].
_build_one_chunk(c, bs, start, heading_idx, done, pend, cs) ==
    PackFrom(c, ChunkStart(c, bs, start, heading_idx, done), bs, start, pend, cs)

\* Lines 127-137: the chunk is appended, pos and pending move on.
StoreChunk(r) ==
    /\ chunks' = IF r.made THEN Append(chunks, r.chunk) ELSE chunks
    /\ pos' = r.pos
    /\ pending' = r.pending
    /\ blocks' = r.blocks
    /\ cuts' = r.cuts

\* build_chunks, one iteration of the pass-1 loop.
BuildOneChunk ==
    /\ pc = "build"
    /\ pos < Len(blocks)
    /\ StoreChunk(_build_one_chunk(cfg, blocks, pos,
                                   _build_heading_idx_from_blocks(blocks),
                                   chunks, pending, cuts))
    /\ UNCHANGED <<pc, cfg, headings, _heading_stack, _block_counter,
                   _text_offset, parsed, call, threads,
                   soup>>

(***************************************************************************)
(* Pass 2: ChunkBuilder._apply_next_overlap                                *)
(***************************************************************************)

_rebuild_texts(c, chunk) ==
    LET full_text == chunk.overlap_prev_text \o chunk.normalized_text
                     \o chunk.overlap_next_text
    IN [chunk EXCEPT
          !.full_text = full_text,
          !.embedding_text =
              _build_embedding_text(c, chunk.text_heading_hierarchy, full_text)]

\* Lines 470-489: the forward window ov stored in chunk cur.
WithNextOverlap(c, cur, ov, ov_indices_filtered) ==
    IF ov.text = <<>> THEN cur
    ELSE _rebuild_texts(c,
           [cur EXCEPT
              !.overlap_next_block_indices = ov_indices_filtered,
              !.overlap_next_text = ov.text,
              !.block_indices =
                  @ \o SelectSeq(ov_indices_filtered,
                                 LAMBDA x : x \notin Range(cur.block_indices))])

\* Lines 474-477: the window's indices that are not core indices of cur.
FilterCore(c, cur, ov) ==
    WithNextOverlap(c, cur, ov,
        SelectSeq(ov.indices, LAMBDA x : x \notin Range(cur.core_block_indices)))

\* The window is read from the chunk's own core fragments and its indices
\* are stored unfiltered.
OwnCoreOverlap(c, cur, ov) ==
    IF ov.text = <<>> THEN cur
    ELSE _rebuild_texts(c,
           [cur EXCEPT
              !.overlap_next_block_indices = ov.indices,
              !.overlap_next_text = ov.text,
              !.block_indices = @ \o ov.indices])

NextOverlapOf_OwnCore(c, cur, nxt) ==
    OwnCoreOverlap(c, cur, _collect_overlap_text(c, cur.core_fragments, FALSE))

\* The body of the loop for chunk cur and its successor nxt.
NextOverlapOf(c, cur, nxt) ==
    FilterCore(c, cur, _collect_overlap_text(c, nxt.core_fragments, FALSE))

_apply_next_overlap(c, cs) ==
    [k \in 1..Len(cs) |->
        IF k < Len(cs) THEN NextOverlapOf(c, cs[k], cs[k + 1]) ELSE cs[k]]

\* build_chunks, after the loop: pass 2 and return.
FinishChunks ==
    /\ pc = "build"
    /\ pos >= Len(blocks)
    /\ chunks' = IF cfg.chunk_overlap > 0 THEN _apply_next_overlap(cfg, chunks)
                 ELSE chunks
    /\ pc' = "done"
    /\ UNCHANGED <<cfg, blocks, headings, _heading_stack, _block_counter,
                   _text_offset, pos, pending, parsed, cuts, call,
                   threads, soup>>

Next ==
    \/ ProcessBlock
    \/ ProcessHeading
    \/ Normalize
    \/ BuildOneChunk
    \/ FinishChunks

Spec == Init /\ [][Next]_vars

(***************************************************************************)
(* The chunking strategy called directly: split_text and take_prefix on    *)
(* every text of at most MaxTextLen words and every limit up to            *)
(* MaxTokensArg.                                                           *)
(***************************************************************************)

\* The texts of n words: word j is "xx" or "xx." (a sentence end).
TextsOfLen(n) ==
    {[j \in 1..n |-> 2 * j + d[j]] : d \in [1..n -> {0, 1}]}

StrategyTexts == UNION {TextsOfLen(n) : n \in 0..MaxTextLen}

InitStrategy ==
    /\ pc = "strategy"
    /\ cfg \in Configs
    /\ cfg.chunk_size = 16
    /\ blocks = <<>>
    /\ headings = <<>>
    /\ _heading_stack = <<>>
    /\ _block_counter = 0
    /\ _text_offset = 0
    /\ chunks = <<>>
    /\ pos = 0
    /\ pending = NoPending
    /\ parsed = <<>>
    /\ cuts = {}
    /\ threads = NoThreads
    /\ soup = NoSoup
    /\ \E text \in StrategyTexts, max_tokens \in 1..MaxTokensArg,
          must_take \in BOOLEAN :
          call = [op |-> "args", text |-> text, max_tokens |-> max_tokens,
                  must_take |-> must_take]

StrategyUnchanged ==
    UNCHANGED <<pc, cfg, blocks, headings, _heading_stack, _block_counter,
                _text_offset, chunks, pos, pending, parsed, cuts, threads,
                soup>>

\* strategy.split_text(text, max_tokens)
CallSplitText ==
    /\ pc = "strategy"
    /\ call.op = "args"
    /\ call' = [op |-> "split_text", text |-> call.text,
                max_tokens |-> call.max_tokens, must_take |-> call.must_take,
                result |-> split_text(call.text, call.max_tokens)]
    /\ StrategyUnchanged

\* strategy.take_prefix(text, max_tokens, must_take=must_take)
CallTakePrefix ==
    /\ pc = "strategy"
    /\ call.op = "args"
    /\ call' = [op |-> "take_prefix", text |-> call.text,
                max_tokens |-> call.max_tokens, must_take |-> call.must_take,
                result |-> take_prefix(call.text, call.max_tokens,
                                       call.must_take)]
    /\ StrategyUnchanged

NextStrategy ==
    \/ CallSplitText
    \/ CallTakePrefix

SpecStrategy == InitStrategy /\ [][NextStrategy]_vars

(***************************************************************************)
(* _collect_overlap_text called as _build_one_chunk (line 534, from the    *)
(* end of the previous chunk's core fragments) and _apply_next_overlap     *)
(* (line 465, from the start of the next chunk's) call it: on the core     *)
(* fragments of one chunk, one per block, under every chunk_overlap up to  *)
(* MaxTokensArg.                                                           *)
(***************************************************************************)

\* The texts of block k: a paragraph shape, the long word, or both.
OverlapTexts(k) ==
    {ShapeText(k, 0, shape) \o last :
        shape \in ParagraphShapes, last \in {<<>>, <<-5>>}} \cup {<<-5>>}

\* The fragment of the whole text of block k.
CoreFragment(k, text) ==
    _make_fragment([index |-> k, id |-> k, block_type |-> "paragraph",
                    text_offset |-> 0], text, 0, StrLen(text))

\* The core fragments of a chunk: one or two consecutive blocks, the first
\* of them block 0 or block 1 of the page.
CoreFragmentLists ==
    UNION {{<<CoreFragment(k, t)>> : t \in OverlapTexts(k)}
           \cup {<<CoreFragment(k, t), CoreFragment(k + 1, u)>> :
                    t \in OverlapTexts(k), u \in OverlapTexts(k + 1)}
           : k \in {0, 1}}

InitOverlap ==
    /\ pc = "overlap"
    /\ \E c \in Configs, chunk_overlap \in 1..MaxTokensArg :
          /\ c.chunk_size = 16
          /\ cfg = [c EXCEPT !.chunk_overlap = chunk_overlap]
    /\ blocks = <<>>
    /\ headings = <<>>
    /\ _heading_stack = <<>>
    /\ _block_counter = 0
    /\ _text_offset = 0
    /\ chunks = <<>>
    /\ pos = 0
    /\ pending = NoPending
    /\ parsed = <<>>
    /\ cuts = {}
    /\ threads = NoThreads
    /\ soup = NoSoup
    /\ \E source_fragments \in CoreFragmentLists :
          \* the core of a chunk is packed under chunk_size
          /\ count_tokens(JoinSp([k \in DOMAIN source_fragments |->
                                     source_fragments[k].text]))
                <= cfg.chunk_size
          /\ call = [op |-> "args", source_fragments |-> source_fragments]

\* self._collect_overlap_text(source_fragments=..., from_end=...); the chunk
\* that holds block 0 of a page is the first one, whose core is read from
\* the end only.
CallCollectOverlap ==
    /\ pc = "overlap"
    /\ call.op = "args"
    /\ \E from_end \in BOOLEAN :
          /\ from_end \/ call.source_fragments[1].block_index # 0
          /\ call' = [op |-> "_collect_overlap_text",
                      source_fragments |-> call.source_fragments,
                      from_end |-> from_end,
                      result |-> _collect_overlap_text(
                                     cfg, call.source_fragments, from_end)]
    /\ StrategyUnchanged

NextOverlap ==
    \/ CallCollectOverlap

SpecOverlap == InitOverlap /\ [][NextOverlap]_vars

(***************************************************************************)
(* The pipeline of main.py: process_worker hands every page of its queue   *)
(* to process_page in a thread of its own (asyncio.to_thread); two such    *)
(* threads run at once and the interpreter switches between them at any    *)
(* step. A page is the sequence of its elements <<tag, shape>>.            *)
(***************************************************************************)

Pages ==
    { << <<"p", <<3, 3, 3>> >>, <<"h1", <<-1>> >>, <<"p", <<1>> >> >>,
      << <<"p", <<-11>> >>, <<"p", <<1, -3>> >> >> }

\* The pages the fetch workers put on page_queue, in order.
PageQueues == {<<a, b, c>> : a, b, c \in Pages}

\* What the running thread holds: the objects of its process_page call.
Locals ==
    [pc |-> pc, blocks |-> blocks, headings |-> headings,
     _heading_stack |-> _heading_stack, _block_counter |-> _block_counter,
     _text_offset |-> _text_offset, chunks |-> chunks, pos |-> pos,
     pending |-> pending, parsed |-> parsed, cuts |-> cuts]

\* HTMLParser.__init__ and the reset of parse(): nothing parsed yet.
NewLocals ==
    [pc |-> "parse", blocks |-> <<>>, headings |-> <<>>,
     _heading_stack |-> <<>>, _block_counter |-> 0, _text_offset |-> 0,
     chunks |-> <<>>, pos |-> 0, pending |-> NoPending, parsed |-> <<>>,
     cuts |-> {}]

\* The thread runs on with the objects l.
Resume(l) ==
    /\ pc' = l.pc
    /\ blocks' = l.blocks
    /\ headings' = l.headings
    /\ _heading_stack' = l._heading_stack
    /\ _block_counter' = l._block_counter
    /\ _text_offset' = l._text_offset
    /\ chunks' = l.chunks
    /\ pos' = l.pos
    /\ pending' = l.pending
    /\ parsed' = l.parsed
    /\ cuts' = l.cuts

\* One parser for all pages of a thread, whose parse() leaves _heading_stack
\* as the page before left it.
StartPage_SharedParser ==
    Resume([NewLocals EXCEPT !._heading_stack = _heading_stack])

\* parse_page_content: a new HTMLParser for the page, and parse() resets it.
StartPage ==
    Resume(NewLocals)

\* A process_worker before its first page, at page_queue.get().
NewThread ==
    [locals |-> [NewLocals EXCEPT !.pc = "get"], input |-> <<>>,
     nth |-> 0, preempted |-> FALSE]

InitWorkers ==
    /\ pc = "get"
    /\ cfg \in Configs
    /\ blocks = <<>>
    /\ headings = <<>>
    /\ _heading_stack = <<>>
    /\ _block_counter = 0
    /\ _text_offset = 0
    /\ chunks = <<>>
    /\ pos = 0
    /\ pending = NoPending
    /\ parsed = <<>>
    /\ cuts = {}
    /\ call = NoCall
    /\ soup = NoSoup
    /\ \E pages \in PageQueues :
          threads = [on |-> TRUE, todo |-> pages, page_queue |-> <<>>,
                     input |-> <<>>, nth |-> 0, preempted |-> FALSE,
                     other |-> NewThread, results |-> <<>>]

\* fetch_worker: await page_queue.put(page), the next page arrives.
PutPage ==
    /\ threads.on
    /\ threads.todo # <<>>
    /\ threads' = [threads EXCEPT !.page_queue = Append(@, Head(threads.todo)),
                                  !.todo = Tail(@)]
    /\ UNCHANGED <<pc, cfg, blocks, headings, _heading_stack, _block_counter,
                   _text_offset, chunks, pos, pending, parsed, cuts, call, soup>>

\* process_worker: page = await page_queue.get() hands the worker the page at
\* the head of the shared queue, and asyncio.to_thread starts process_page on
\* it in a thread.
TakePage ==
    /\ threads.on
    /\ pc = "get"
    /\ threads.page_queue # <<>>
    /\ StartPage
    /\ threads' = [threads EXCEPT !.input = Head(threads.page_queue),
                                  !.page_queue = Tail(@),
                                  !.preempted = FALSE]
    /\ UNCHANGED <<cfg, call, soup>>

\* The blocks parsed so far are the first elements of the page `input`.
ParsedFrom(ps, input) ==
    /\ Len(ps) <= Len(input)
    /\ ps[Len(ps)].block_type = input[Len(ps)][1]
    /\ ps[Len(ps)].text = ShapeText(Len(ps) - 1, 0, input[Len(ps)][2])

\* _walk reaches the next element of the page, a leaf element.
WalkBlock ==
    /\ threads.on
    /\ ProcessBlock
    /\ ParsedFrom(parsed', threads.input)

\* _walk reaches the next element of the page, a heading.
WalkHeading ==
    /\ threads.on
    /\ ProcessHeading
    /\ ParsedFrom(parsed', threads.input)

\* parse() has returned the blocks of the whole page.
NormalizePage ==
    /\ threads.on
    /\ Len(parsed) = Len(threads.input)
    /\ Normalize

\* process_page returns and process_worker puts the PageResult and marks
\* the page done; the worker stands at page_queue.get() again, its page still
\* in hand.
ReturnPage ==
    /\ threads.on
    /\ pc = "done"
    /\ Resume([Locals EXCEPT !.pc = "get"])
    /\ threads' =
          [threads EXCEPT
              !.results = Append(@, [page |-> threads.input, chunks |-> chunks,
                                     blocks |-> blocks, nth |-> threads.nth,
                                     preempted |-> threads.preempted]),
              !.nth = @ + 1]
    /\ UNCHANGED <<cfg, call, soup>>

\* The other worker runs on: the interpreter resumes its thread, or the event
\* loop its coroutine when a page waits for it.
SwitchThread ==
    /\ threads.on
    /\ threads.other.locals.pc = "get" => threads.page_queue # <<>>
    /\ Resume(threads.other.locals)
    /\ threads' =
          [threads EXCEPT
              !.input = threads.other.input,
              !.nth = threads.other.nth,
              !.preempted = threads.other.preempted,
              !.other = [locals |-> Locals, input |-> threads.input,
                         nth |-> threads.nth,
                         preempted |-> threads.preempted \/ parsed # <<>>]]
    /\ UNCHANGED <<cfg, call, soup>>

NextWorkers ==
    \/ PutPage
    \/ TakePage
    \/ WalkBlock
    \/ WalkHeading
    \/ NormalizePage
    \/ BuildOneChunk
    \/ FinishChunks
    \/ ReturnPage
    \/ SwitchThread

SpecWorkers == InitWorkers /\ [][NextWorkers]_vars

(***************************************************************************)
(* HTMLParser on a DOM tree.                                               *)
(* A node is [tag, kids, text]: an element has a tag and child nodes, a    *)
(* text node (NavigableString) has the tag "#text" and a text. A text is a *)
(* sequence of words, a word the sequence of the text nodes written in it  *)
(* without a space: text node n holds the one word <<n>>, and <<1>>, <<2,  *)
(* 3>> reads "w1 w2w3". The word <<0>> is the "|" of ' | '.                *)
(***************************************************************************)

TextNode(n) == [tag |-> "#text", kids |-> <<>>, text |-> <<<<n>>>>]

Element(tag) == [tag |-> tag, kids |-> <<>>, text |-> <<>>]

\* settings.BLOCK_TAGS
block_tags ==
    {"p", "div", "blockquote", "pre", "ul", "ol", "table", "h1", "h2", "h3",
     "h4", "h5", "h6", "section", "article", "figure", "figcaption"}

\* element.descendants of the element with children `kids`.
RECURSIVE DescendantsOf(_)
DescendantsOf(kids) ==
    IF kids = <<>> THEN <<>>
    ELSE <<Head(kids)>> \o DescendantsOf(Head(kids).kids)
         \o DescendantsOf(Tail(kids))

\* element.find_all(names, recursive=False)
FindAll(element, names) == SelectSeq(element.kids, LAMBDA k : k.tag \in names)

\* Lines 421-463: a text node is written right after the text before it, and
\* after a '\n' where a block tag was met in between.
RECURSIVE ExtractLoop(_, _, _)
ExtractLoop(nodes, words, last_was_sep) ==
    IF nodes = <<>> THEN words
    ELSE IF Head(nodes).tag = "#text"
         THEN ExtractLoop(Tail(nodes),
                  IF last_was_sep THEN words \o Head(nodes).text
                  ELSE [words EXCEPT ![Len(words)] = @ \o Head(nodes).text[1]],
                  FALSE)
         ELSE ExtractLoop(Tail(nodes), words,
                          last_was_sep \/ Head(nodes).tag \in block_tags)

\* HTMLParser._extract_text
_extract_text(element) == ExtractLoop(DescendantsOf(element.kids), <<>>, TRUE)

\* if text: self._create_block(text, block_type, ...)
Emit(text, block_type) ==
    IF text # <<>> THEN <<[block_type |-> block_type, text |-> text]>> ELSE <<>>

\* ' | '.join(parts)
RECURSIVE JoinBar(_)
JoinBar(parts) ==
    IF parts = <<>> THEN <<>>
    ELSE IF Len(parts) = 1 THEN parts[1]
    ELSE parts[1] \o <<<<0>>>> \o JoinBar(Tail(parts))

\* Lines 345-349: the texts of the cells that have one.
CellTexts(cells) ==
    SelectSeq([k \in 1..Len(cells) |-> _extract_text(cells[k])],
              LAMBDA t : t # <<>>)

\* Lines 339-353: the block of one row.
RowBlock(row) == Emit(JoinBar(CellTexts(FindAll(row, {"td", "th"}))), "tr")

RECURSIVE RowBlocks(_)
RowBlocks(rows) ==
    IF rows = <<>> THEN <<>> ELSE RowBlock(Head(rows)) \o RowBlocks(Tail(rows))

\* Lines 325-331: the direct rows of the sections.
RECURSIVE SectionRows(_)
SectionRows(sections) ==
    IF sections = <<>> THEN <<>>
    ELSE FindAll(Head(sections), {"tr"}) \o SectionRows(Tail(sections))

\* HTMLParser._process_table
_process_table(table_el) ==
    RowBlocks(IF FindAll(table_el, {"thead", "tbody", "tfoot"}) # <<>>
              THEN SectionRows(FindAll(table_el, {"thead", "tbody", "tfoot"}))
              ELSE FindAll(table_el, {"tr"}))

RECURSIVE _walk(_)
RECURSIVE _process_list(_)

\* Lines 272-299: the children of a list item that has nested lists.
RECURSIVE ItemLoop(_, _)
ItemLoop(kids, inline_buf) ==
    IF kids = <<>> THEN Emit(inline_buf, "li")
    ELSE IF Head(kids).tag = "#text"
         THEN ItemLoop(Tail(kids), inline_buf \o Head(kids).text)
    ELSE IF Head(kids).tag \in {"ul", "ol"}
         THEN Emit(inline_buf, "li") \o _process_list(Head(kids))
              \o ItemLoop(Tail(kids), <<>>)
    ELSE ItemLoop(Tail(kids), inline_buf \o _extract_text(Head(kids)))

\* Lines 258-299: one list item.
ListItem(li) ==
    IF FindAll(li, {"ul", "ol"}) = <<>> THEN Emit(_extract_text(li), "li")
    ELSE ItemLoop(li.kids, <<>>)

RECURSIVE ListItems(_)
ListItems(lis) ==
    IF lis = <<>> THEN <<>> ELSE ListItem(Head(lis)) \o ListItems(Tail(lis))

\* HTMLParser._process_list
_process_list(list_el) == ListItems(FindAll(list_el, {"li"}))

\* Lines 228-244: the children of an element with block children.
RECURSIVE MixedLoop(_, _, _)
MixedLoop(kids, inline_buf, tag) ==
    IF kids = <<>> THEN Emit(inline_buf, tag)
    ELSE IF Head(kids).tag = "#text"
         THEN MixedLoop(Tail(kids), inline_buf \o Head(kids).text, tag)
    ELSE IF Head(kids).tag \in block_tags
         THEN Emit(inline_buf, tag) \o _walk(Head(kids))
              \o MixedLoop(Tail(kids), <<>>, tag)
    ELSE MixedLoop(Tail(kids), inline_buf \o _extract_text(Head(kids)), tag)

\* HTMLParser._process_mixed_content
_process_mixed_content(element) == MixedLoop(element.kids, <<>>, element.tag)

\* HTMLParser._process_block and _process_heading (the block of the heading)
_process_block(element) ==
    IF element.tag \in {"ul", "ol"} THEN _process_list(element)
    ELSE IF element.tag = "table" THEN _process_table(element)
    ELSE IF element.tag \in heading_tags
         THEN Emit(_extract_text(element), element.tag)
    ELSE IF \E k \in 1..Len(element.kids) : element.kids[k].tag \in block_tags
         THEN _process_mixed_content(element)
    ELSE Emit(_extract_text(element), element.tag)

\* Lines 152-154: the element children of an element that is no block.
RECURSIVE WalkKids(_)
WalkKids(kids) ==
    IF kids = <<>> THEN <<>>
    ELSE (IF Head(kids).tag = "#text" THEN <<>> ELSE _walk(Head(kids)))
         \o WalkKids(Tail(kids))

\* HTMLParser._walk
_walk(element) ==
    IF element.tag \in block_tags THEN _process_block(element)
    ELSE WalkKids(element.kids)

(***************************************************************************)
(* HTMLParser.parse called on markup: BeautifulSoup reads it tag by tag    *)
(* into a tree, then the tree is walked from its body.                     *)
(***************************************************************************)

\* The nodes the markup puts into an element of a tag.
ChildTags(tag) ==
    CASE tag = "body" -> {"div", "ul", "table"}
      [] tag = "div" -> {"#text", "span", "p", "ul"}
      [] tag = "p" -> {"#text"}
      [] tag = "span" -> {"#text"}
      [] tag = "ul" -> {"li"}
      [] tag = "li" -> {"#text", "span", "p", "ul"}
      [] tag = "table" -> {"tr"}
      [] tag = "tr" -> {"td"}
      [] tag = "td" -> {"#text", "p", "table"}

InitExtractor ==
    /\ pc = "soup"
    /\ cfg \in Configs
    /\ cfg.chunk_size = 16
    /\ blocks = <<>>
    /\ headings = <<>>
    /\ _heading_stack = <<>>
    /\ _block_counter = 0
    /\ _text_offset = 0
    /\ chunks = <<>>
    /\ pos = 0
    /\ pending = NoPending
    /\ parsed = <<>>
    /\ cuts = {}
    /\ call = NoCall
    /\ threads = NoThreads
    /\ soup = [open |-> <<Element("body")>>, nodes |-> 0, texts |-> 0]

ExtractorUnchanged ==
    UNCHANGED <<cfg, blocks, headings, _heading_stack, _block_counter,
                _text_offset, chunks, pos, pending, parsed, cuts, threads>>

\* The element being read.
Top == soup.open[Len(soup.open)]

\* A start tag: a new element is open.
OpenTag ==
    /\ pc = "soup"
    /\ soup.nodes < MaxNodes
    /\ Len(soup.open) < MaxDepth
    /\ \E tag \in ChildTags(Top.tag) \ {"#text"} :
          soup' = [soup EXCEPT !.open = Append(@, Element(tag)),
                               !.nodes = @ + 1]
    /\ UNCHANGED <<pc, call>>
    /\ ExtractorUnchanged

\* Text: a text node of the element being read; text next to text is one node.
ReadText ==
    /\ pc = "soup"
    /\ soup.nodes < MaxNodes
    /\ soup.texts < MaxTexts
    /\ "#text" \in ChildTags(Top.tag)
    /\ IF Top.kids = <<>> THEN TRUE ELSE Top.kids[Len(Top.kids)].tag # "#text"
    /\ soup' = [soup EXCEPT
                   !.open[Len(soup.open)].kids = Append(@, TextNode(soup.texts + 1)),
                   !.nodes = @ + 1,
                   !.texts = @ + 1]
    /\ UNCHANGED <<pc, call>>
    /\ ExtractorUnchanged

\* An end tag: the element is a child of the one it was opened in.
CloseTag ==
    /\ pc = "soup"
    /\ Len(soup.open) > 1
    /\ Top.kids # <<>>
    /\ soup' = [soup EXCEPT
                   !.open = [SubSeq(@, 1, Len(@) - 1) EXCEPT
                                ![Len(soup.open) - 1].kids = Append(@, Top)]]
    /\ UNCHANGED <<pc, call>>
    /\ ExtractorUnchanged

\* HTMLParser.parse: root = soup.find('body'); self._walk(root, ...);
\* the result is the type and the text of every block.
ParseMarkup ==
    /\ pc = "soup"
    /\ Len(soup.open) = 1
    /\ Top.kids # <<>>
    /\ call' = [op |-> "parse", dom |-> Top, result |-> _walk(Top)]
    /\ pc' = "parsed"
    /\ UNCHANGED soup
    /\ ExtractorUnchanged

NextExtractor ==
    \/ OpenTag
    \/ ReadText
    \/ CloseTag
    \/ ParseMarkup

SpecExtractor == InitExtractor /\ [][NextExtractor]_vars

(***************************************************************************)
(* The optional backends: the sentence splitters razdel and spaCy and the  *)
(* tokenizer of transformers, each installed or not; env holds the         *)
(* settings and what can be loaded.                                        *)
(***************************************************************************)

BackendEnvs ==
    [SENTENCE_SPLITTER : {"regex", "razdel", "spacy"},
     CHUNKING_STRATEGY : {"simple", "tokenizer", "other"},
     TOKEN_COUNT_STRATEGY : {"simple", "hf"},
     TOKENIZER_LOCAL_PATH : BOOLEAN,
     razdel : BOOLEAN,
     spacy : BOOLEAN,
     transformers : BOOLEAN,
     tokenizer : {"loads", "ImportError", "OSError"}]

\* What the wrapper of a library's sentence splitter may return: the text
\* cut into pieces in any way, the empty pieces dropped, so no piece at all
\* for the empty text.
RECURSIVE Segmentations(_)
Segmentations(text) ==
    IF text = <<>> THEN {<<>>} ELSE
    {<<text>>} \cup
    UNION {{<<SubSeq(text, 1, k)>> \o rest :
                rest \in Segmentations(SubSeq(text, k + 1, Len(text)))} :
           k \in 1..(Len(text) - 1)}

\* split_into_sentences under the settings and libraries of env: what it
\* may return.
SentencesUnder(env, text) ==
    IF env.SENTENCE_SPLITTER = "razdel" /\ env.razdel THEN Segmentations(text)
    ELSE IF env.SENTENCE_SPLITTER = "spacy" /\ env.spacy THEN Segmentations(text)
    ELSE {_split_sentences_regex(text)}

\* get_chunking_strategy(settings.CHUNKING_STRATEGY) with
\* TokenizerStrategy.__init__: the strategy made or the exception raised.
\* env.tokenizer is what AutoTokenizer.from_pretrained does: it loads the
\* tokenizer or raises; an ImportError is raised again as ImportError, every
\* other exception as RuntimeError.
GetStrategyUnder(env) ==
    IF env.CHUNKING_STRATEGY = "tokenizer"
    THEN IF ~env.transformers \/ env.tokenizer = "ImportError"
         THEN [raised |-> "ImportError", strategy |-> "none"]
         ELSE IF env.tokenizer # "loads"
         THEN [raised |-> "RuntimeError", strategy |-> "none"]
         ELSE [raised |-> "", strategy |-> "tokenizer"]
    ELSE IF env.CHUNKING_STRATEGY = "simple"
    THEN [raised |-> "", strategy |-> "simple"]
    ELSE [raised |-> "ValueError", strategy |-> "none"]

\* TokenCounter.from_settings(strategy, tokenizer_local_path)
FromSettingsUnder(env) ==
    IF env.TOKEN_COUNT_STRATEGY # "hf"
    THEN [raised |-> "", strategy |-> "simple"]
    ELSE IF ~env.transformers
    THEN [raised |-> "", strategy |-> "simple"]
    ELSE IF ~env.TOKENIZER_LOCAL_PATH
    THEN [raised |-> "", strategy |-> "simple"]
    ELSE IF env.tokenizer # "loads"
    THEN [raised |-> env.tokenizer, strategy |-> "none"]
    ELSE [raised |-> "", strategy |-> "hf"]

InitBackends ==
    /\ pc = "backends"
    /\ cfg \in Configs
    /\ cfg.chunk_size = 16
    /\ blocks = <<>>
    /\ headings = <<>>
    /\ _heading_stack = <<>>
    /\ _block_counter = 0
    /\ _text_offset = 0
    /\ chunks = <<>>
    /\ pos = 0
    /\ pending = NoPending
    /\ parsed = <<>>
    /\ cuts = {}
    /\ threads = NoThreads
    /\ soup = NoSoup
    /\ \E env \in BackendEnvs, text \in TextsOfLen(2) :
          call = [op |-> "args", env |-> env, text |-> text]

BackendsUnchanged ==
    UNCHANGED <<pc, cfg, blocks, headings, _heading_stack, _block_counter,
                _text_offset, chunks, pos, pending, parsed, cuts, threads,
                soup>>

\* split_into_sentences(text)
CallSplitIntoSentences ==
    /\ pc = "backends"
    /\ call.op = "args"
    /\ \E sentences \in SentencesUnder(call.env, call.text) :
          call' = [op |-> "split_into_sentences", env |-> call.env,
                   text |-> call.text, result |-> sentences]
    /\ BackendsUnchanged

\* _get_strategy() in create_chunks_from_page
CallGetStrategy ==
    /\ pc = "backends"
    /\ call.op = "args"
    /\ call' = [op |-> "get_chunking_strategy", env |-> call.env,
                text |-> call.text, result |-> GetStrategyUnder(call.env)]
    /\ BackendsUnchanged

\* TokenCounter.from_settings(...)
CallFromSettings ==
    /\ pc = "backends"
    /\ call.op = "args"
    /\ call' = [op |-> "from_settings", env |-> call.env,
                text |-> call.text, result |-> FromSettingsUnder(call.env)]
    /\ BackendsUnchanged

NextBackends ==
    \/ CallSplitIntoSentences
    \/ CallGetStrategy
    \/ CallFromSettings

SpecBackends == InitBackends /\ [][NextBackends]_vars

(***************************************************************************)
(* Configuration: Settings.validate in main() of main.py, and the checks   *)
(* of Chunker.__init__ in confluence_semantic_prep, whose Chunker is made  *)
(* by run_pipeline, the entry point of run.py, once the pages of the run   *)
(* have been fetched.                                                      *)
(***************************************************************************)

ConfigSettings ==
    [CHUNK_SIZE : -1..MaxTokensArg,
     CHUNK_OVERLAP : -1..MaxTokensArg,
     CHUNKING_STRATEGY : {"simple", "tokenizer", "other"}]

\* Settings.validate: the errors collected for the chunking settings
ValidateErrors(s) ==
    (IF s.CHUNK_SIZE <= 0 THEN {"CHUNK_SIZE must be positive"} ELSE {})
    \cup (IF s.CHUNK_OVERLAP < 0
          THEN {"CHUNK_OVERLAP must be non-negative"} ELSE {})
    \cup (IF s.CHUNK_OVERLAP >= s.CHUNK_SIZE
          THEN {"CHUNK_OVERLAP must be strictly less than CHUNK_SIZE"}
          ELSE {})
    \cup (IF s.CHUNKING_STRATEGY \notin {"tokenizer", "simple"}
          THEN {"CHUNKING_STRATEGY must be 'tokenizer' or 'simple'"}
          ELSE {})

\* Chunker.__init__(chunk_size_tokens, chunk_overlap_tokens): the overlap
\* it keeps and whether it raises ValueError.
ChunkerInit(chunk_size_tokens, chunk_overlap_tokens) ==
    [chunk_size_tokens |-> chunk_size_tokens,
     chunk_overlap_tokens |-> Max(0, chunk_overlap_tokens),
     raised |-> Max(0, chunk_overlap_tokens) >= chunk_size_tokens]

InitConfig ==
    /\ pc = "config"
    /\ cfg \in Configs
    /\ cfg.chunk_size = 16
    /\ blocks = <<>>
    /\ headings = <<>>
    /\ _heading_stack = <<>>
    /\ _block_counter = 0
    /\ _text_offset = 0
    /\ chunks = <<>>
    /\ pos = 0
    /\ pending = NoPending
    /\ parsed = <<>>
    /\ cuts = {}
    /\ threads = NoThreads
    /\ soup = NoSoup
    /\ \E s \in ConfigSettings :
       \E page_ids \in 0..MaxPageIds :
          call = [op |-> "start", settings |-> s, page_ids |-> page_ids,
                  chunk_overlap_tokens |-> FALSE, fetched |-> 0,
                  processed |-> 0, result |-> ChunkerInit(1, 0)]

ConfigUnchanged ==
    UNCHANGED <<pc, cfg, blocks, headings, _heading_stack, _block_counter,
                _text_offset, chunks, pos, pending, parsed, cuts, threads,
                soup>>

\* main(): settings.validate(), sys.exit(1) on ValueError
MainValidate ==
    /\ pc = "config"
    /\ call.op = "start"
    /\ call' = [call EXCEPT !.op = IF ValidateErrors(call.settings) = {}
                                   THEN "pipeline" ELSE "exit"]
    /\ ConfigUnchanged

\* fetch_worker: one more page fetched
PipelineFetch ==
    /\ pc = "config"
    /\ call.op = "pipeline"
    /\ call.fetched < call.page_ids
    /\ call' = [call EXCEPT !.fetched = @ + 1]
    /\ ConfigUnchanged

\* process_worker: one more page parsed and chunked
PipelineProcess ==
    /\ pc = "config"
    /\ call.op = "pipeline"
    /\ call.processed < call.fetched
    /\ call' = [call EXCEPT !.processed = @ + 1]
    /\ ConfigUnchanged

\* run_pipeline(settings), lines 109-118: the token counter (every strategy
\* name but 'hf' gives the simple one), the client and the page ids.  The
\* settings are the Settings of the package, which has no field
\* chunk_overlap_tokens, or an object that has one.
RunPipeline ==
    /\ pc = "config"
    /\ call.op = "start"
    /\ \E chunk_overlap_tokens \in BOOLEAN :
          call' = [call EXCEPT !.op = "run_pipeline",
                               !.chunk_overlap_tokens = chunk_overlap_tokens]
    /\ ConfigUnchanged

\* run_pipeline, lines 120-138: one more page fetched
RunPipelineFetch ==
    /\ pc = "config"
    /\ call.op = "run_pipeline"
    /\ call.fetched < call.page_ids
    /\ call' = [call EXCEPT !.fetched = @ + 1]
    /\ ConfigUnchanged

\* run_pipeline, lines 144-153, after the last fetch:
\* Chunker(chunk_size_tokens=..., chunk_overlap_tokens=...); the error that
\* is raised ends the run.
NewChunker ==
    /\ pc = "config"
    /\ call.op = "run_pipeline"
    /\ call.fetched = call.page_ids
    /\ call' =
          IF ~call.chunk_overlap_tokens
          THEN [call EXCEPT !.op = "AttributeError"]
          ELSE [call EXCEPT
                  !.result = ChunkerInit(call.settings.CHUNK_SIZE,
                                         call.settings.CHUNK_OVERLAP),
                  !.op = IF ChunkerInit(call.settings.CHUNK_SIZE,
                                        call.settings.CHUNK_OVERLAP).raised
                         THEN "ValueError" ELSE "Chunker"]
    /\ ConfigUnchanged

\* run_pipeline, lines 164-173: one more page parsed and chunked
RunPipelineChunkPage ==
    /\ pc = "config"
    /\ call.op = "Chunker"
    /\ call.processed < call.fetched
    /\ call' = [call EXCEPT !.processed = @ + 1]
    /\ ConfigUnchanged

NextConfig ==
    \/ MainValidate
    \/ PipelineFetch
    \/ PipelineProcess
    \/ RunPipeline
    \/ RunPipelineFetch
    \/ NewChunker
    \/ RunPipelineChunkPage

SpecConfig == InitConfig /\ [][NextConfig]_vars

(***************************************************************************)
(* Headings of all six levels: the extractor emits headings and paragraphs *)
(* one after the other, then the heading hierarchy of one block is         *)
(* resolved over the heading index of the blocks.                          *)
(***************************************************************************)

InitHeadings ==
    /\ pc = "headings"
    /\ cfg \in Configs
    /\ cfg.chunk_size = 16
    /\ blocks = <<>>
    /\ headings = <<>>
    /\ _heading_stack = <<>>
    /\ _block_counter = 0
    /\ _text_offset = 0
    /\ chunks = <<>>
    /\ pos = 0
    /\ pending = NoPending
    /\ parsed = <<>>
    /\ cuts = {}
    /\ call = NoCall
    /\ threads = NoThreads
    /\ soup = NoSoup

\* _process_heading on an element h1 .. h6 with a one-word text
HeadingOfLevel ==
    /\ pc = "headings"
    /\ _block_counter < MaxHeadings
    /\ \E tag \in heading_tags :
          LET text == ShapeText(_block_counter, 0, <<-1>>)
              block == _create_block(text, tag)
              info == [level |-> HeadingLevel(tag), text |-> text,
                       block_id |-> block.id, block_index |-> block.index]
          IN /\ blocks' = Append(blocks, block)
             /\ _block_counter' = _block_counter + 1
             /\ _text_offset' = _text_offset + StrLen(text) + 1
             /\ headings' = Append(headings, info)
             /\ _heading_stack' =
                    Append(StackBelow(_heading_stack, info.level), info)
             /\ parsed' = Append(parsed, block)
    /\ UNCHANGED <<pc, cfg, chunks, pos, pending, cuts, call, threads, soup>>

\* _process_block on a paragraph with a one-word text
BlockUnderHeadings ==
    /\ pc = "headings"
    /\ _block_counter < MaxHeadings
    /\ LET text == ShapeText(_block_counter, 0, <<-1>>)
           block == _create_block(text, "p")
       IN /\ blocks' = Append(blocks, block)
          /\ _block_counter' = _block_counter + 1
          /\ _text_offset' = _text_offset + StrLen(text) + 1
          /\ parsed' = Append(parsed, block)
    /\ UNCHANGED <<pc, cfg, headings, _heading_stack, chunks, pos, pending,
                   cuts, call, threads, soup>>

\* _build_heading_hierarchy([first], heading_idx) for a block of the page
ResolveHierarchy ==
    /\ pc = "headings"
    /\ \E k \in 1..Len(blocks), n \in 1..3 :
          call' = [op |-> "_build_heading_hierarchy",
                   first |-> blocks[k],
                   max_heading_levels |-> n,
                   result |-> _build_heading_hierarchy(
                                  blocks[k],
                                  _build_heading_idx_from_blocks(blocks), n)]
    /\ pc' = "resolved"
    /\ UNCHANGED <<cfg, blocks, headings, _heading_stack, _block_counter,
                   _text_offset, chunks, pos, pending, parsed, cuts, threads,
                   soup>>

NextHeadings ==
    \/ HeadingOfLevel
    \/ BlockUnderHeadings
    \/ ResolveHierarchy

SpecHeadings == InitHeadings /\ [][NextHeadings]_vars

(***************************************************************************)
(* _get_strategy under worker threads.  threads holds the setting          *)
(* CHUNKING_STRATEGY, the strategy instances made so far (made[i] is the   *)
(* name instance i was made for), the attributes of _strategy_local, the   *)
(* position and the local variables of every thread inside _get_strategy,  *)
(* and the instances handed out.                                           *)
(***************************************************************************)

WorkerThreads == {1, 2}

StrategyNames == {"simple", "tokenizer", "other"}

\* threading.local(): the attributes a thread sees are its own
LocalKey_Global(t) == 1

LocalKey(t) == t

NoInstance == 0

InitLocal ==
    /\ pc = "get_strategy"
    /\ cfg \in Configs
    /\ cfg.chunk_size = 16
    /\ blocks = <<>>
    /\ headings = <<>>
    /\ _heading_stack = <<>>
    /\ _block_counter = 0
    /\ _text_offset = 0
    /\ chunks = <<>>
    /\ pos = 0
    /\ pending = NoPending
    /\ parsed = <<>>
    /\ cuts = {}
    /\ call = NoCall
    /\ soup = NoSoup
    /\ \E name \in StrategyNames :
          threads = [on |-> FALSE,
                     CHUNKING_STRATEGY |-> name,
                     changes |-> 0,
                     made |-> <<>>,
                     _strategy_local |->
                         [k \in WorkerThreads |->
                             [instance |-> NoInstance, strategy_name |-> ""]],
                     at |-> [t \in WorkerThreads |-> "idle"],
                     calls |-> [t \in WorkerThreads |-> 0],
                     frame |-> [t \in WorkerThreads |->
                                  [inst |-> NoInstance, name |-> "",
                                   cur_name |-> ""]],
                     handed |-> {},
                     raised |-> {}]

LocalUnchanged ==
    UNCHANGED <<pc, cfg, blocks, headings, _heading_stack, _block_counter,
                _text_offset, chunks, pos, pending, parsed, cuts, call, soup>>

\* Lines 1177-1178: inst and name read from _strategy_local
GetStrategyEnter(t) ==
    /\ pc = "get_strategy"
    /\ threads.at[t] = "idle"
    /\ threads.calls[t] < MaxCalls
    /\ threads' = [threads EXCEPT
          !.at[t] = "entered",
          !.calls[t] = @ + 1,
          !.frame[t] = [inst |-> threads._strategy_local[LocalKey(t)].instance,
                        name |-> threads._strategy_local[LocalKey(t)].strategy_name,
                        cur_name |-> ""]]
    /\ LocalUnchanged

\* Line 1181: cur_name = settings.CHUNKING_STRATEGY
GetStrategyReadName(t) ==
    /\ pc = "get_strategy"
    /\ threads.at[t] = "entered"
    /\ threads' = [threads EXCEPT
          !.at[t] = "named",
          !.frame[t].cur_name = threads.CHUNKING_STRATEGY]
    /\ LocalUnchanged

\* get_chunking_strategy(cur_name) at line 1183: what it may do. SimpleStrategy
\* is always made; TokenizerStrategy is made or its __init__ raises, as the
\* tokenizer loads or not at that call; any other name raises ValueError.
StrategyOutcomes(cur_name) ==
    IF cur_name = "simple" THEN {"made"}
    ELSE IF cur_name = "tokenizer" THEN {"made", "raised"}
    ELSE {"raised"}

\* Lines 1182-1186: a new instance when there is none or its name differs,
\* stored in _strategy_local; the instance is returned. When
\* get_chunking_strategy raises, nothing is stored and nothing returned.
GetStrategyReturn(t) ==
    /\ pc = "get_strategy"
    /\ threads.at[t] = "named"
    /\ IF \/ threads.frame[t].inst = NoInstance
          \/ threads.frame[t].name # threads.frame[t].cur_name
       THEN \E outcome \in StrategyOutcomes(threads.frame[t].cur_name) :
            IF outcome = "raised"
            THEN threads' = [threads EXCEPT
               !.at[t] = "idle",
               !.raised = @ \cup {[thread |-> t,
                                    cur_name |-> threads.frame[t].cur_name]}]
            ELSE threads' = [threads EXCEPT
               !.at[t] = "idle",
               !.made = Append(@, threads.frame[t].cur_name),
               !._strategy_local[LocalKey(t)] =
                   [instance |-> Len(threads.made) + 1,
                    strategy_name |-> threads.frame[t].cur_name],
               !.handed = @ \cup {[thread |-> t,
                                    instance |-> Len(threads.made) + 1,
                                    cur_name |-> threads.frame[t].cur_name]}]
       ELSE threads' = [threads EXCEPT
               !.at[t] = "idle",
               !.handed = @ \cup {[thread |-> t,
                                    instance |-> threads.frame[t].inst,
                                    cur_name |-> threads.frame[t].cur_name]}]
    /\ LocalUnchanged

\* settings.CHUNKING_STRATEGY is given another value while the workers run
ChangeStrategySetting ==
    /\ pc = "get_strategy"
    /\ threads.changes < MaxCalls
    /\ \E name \in StrategyNames \ {threads.CHUNKING_STRATEGY} :
          threads' = [threads EXCEPT !.CHUNKING_STRATEGY = name,
                                     !.changes = @ + 1]
    /\ LocalUnchanged

NextLocal ==
    \/ \E t \in WorkerThreads : GetStrategyEnter(t)
    \/ \E t \in WorkerThreads : GetStrategyReadName(t)
    \/ \E t \in WorkerThreads : GetStrategyReturn(t)
    \/ ChangeStrategySetting

SpecLocal == InitLocal /\ [][NextLocal]_vars

(***************************************************************************)
(* The pipeline of main(): the producer of page ids, the fetch workers,    *)
(* the process workers and the writer as asyncio tasks around three        *)
(* bounded queues.  A page is its id 1..n, None is 0.  threads holds the   *)
(* tasks (where each one stands, what it holds), the queues with their     *)
(* counts of unfinished items, the statistics, and as history the pages    *)
(* put on the page queue and how often the writer handled each page.       *)
(***************************************************************************)

WorkerCounts == {1, 2}

\* PAGE_ID_QUEUE_SIZE, PAGE_QUEUE_SIZE and RESULT_QUEUE_SIZE of a run.
QueueSizes == {<<1, 1, 1>>, <<1, 2, 2>>, <<2, 1, 2>>}

None == 0

NoneResult == [page |-> None, error |-> FALSE]

\* for _ in range(fetch_workers): the sentinels of the producer
ProducerSentinels_OneLess(fetch_workers) == fetch_workers - 1

ProducerSentinels(fetch_workers) == fetch_workers

NewPipeline(n, f, p, sizes, listing) ==
    [on |-> FALSE,
     n |-> n,
     listing |-> listing,
     maxsize |-> [id_queue |-> sizes[1], page_queue |-> sizes[2],
                 result_queue |-> sizes[3]],
     id_queue |-> <<>>,
     page_queue |-> <<>>,
     result_queue |-> <<>>,
     unfinished |-> [id_queue |-> 0, page_queue |-> 0, result_queue |-> 0],
     producer |-> [at |-> "ids", next |-> 1, sent |-> 0, failed |-> FALSE],
     fetchers |-> [w \in 1..f |-> [at |-> "get", pid |-> None]],
     processors |-> [w \in 1..p |-> [at |-> "get", page |-> None,
                                     error |-> FALSE]],
     writer |-> "get",
     main |-> "await_producer",
     raised |-> FALSE,
     sentinels |-> 0,
     writer_sentinel |-> FALSE,
     closed |-> FALSE,
     stats |-> [page_ids |-> 0, pages_fetched |-> 0,
                pages_fetch_failed |-> 0, pages_processed |-> 0,
                pages_process_failed |-> 0, pages_with_errors |-> 0,
                pages_write_failed |-> 0],
     queued |-> {},
     handled |-> [page \in 1..n |-> 0]]

InitPipeline ==
    /\ pc = "pipeline"
    /\ cfg \in Configs
    /\ cfg.chunk_size = 16
    /\ blocks = <<>>
    /\ headings = <<>>
    /\ _heading_stack = <<>>
    /\ _block_counter = 0
    /\ _text_offset = 0
    /\ chunks = <<>>
    /\ pos = 0
    /\ pending = NoPending
    /\ parsed = <<>>
    /\ cuts = {}
    /\ call = NoCall
    /\ soup = NoSoup
    /\ \E n \in 0..MaxPageIds, f \in WorkerCounts, p \in WorkerCounts,
          sizes \in QueueSizes, listing \in BOOLEAN :
          threads = NewPipeline(n, f, p, sizes, listing)

PipelineUnchanged ==
    UNCHANGED <<pc, cfg, blocks, headings, _heading_stack, _block_counter,
                _text_offset, chunks, pos, pending, parsed, cuts, call, soup>>

\* queue.full() of id_queue, page_queue or result_queue, each made with a
\* maxsize of its own.
Full(queue) == Len(threads[queue]) >= threads.maxsize[queue]

\* The producer has left the loop over the ids.
InFinally ==
    \/ threads.producer.at = "finally"
    \/ threads.producer.at = "ids" /\ threads.producer.next > threads.n

\* produce_page_ids: await id_queue.put(pid); stats["page_ids"] += 1
ProducerPutId ==
    /\ threads.producer.at = "ids"
    /\ threads.producer.next <= threads.n
    /\ ~Full("id_queue")
    /\ threads' = [threads EXCEPT
          !.id_queue = Append(@, threads.producer.next),
          !.unfinished.id_queue = @ + 1,
          !.producer.next = @ + 1,
          !.stats.page_ids = @ + 1]

\* produce_page_ids: client.iter_all_page_ids() raises
ProducerListingFails ==
    /\ threads.producer.at = "ids"
    /\ threads.listing
    /\ threads' = [threads EXCEPT !.producer.at = "finally",
                                  !.producer.failed = TRUE]

\* produce_page_ids, finally: await id_queue.put(None), once per fetch worker
ProducerPutSentinel ==
    /\ InFinally
    /\ threads.producer.sent < ProducerSentinels(Len(threads.fetchers))
    /\ ~Full("id_queue")
    /\ threads' = [threads EXCEPT
          !.id_queue = Append(@, None),
          !.unfinished.id_queue = @ + 1,
          !.producer.at = "finally",
          !.producer.sent = @ + 1]

\* produce_page_ids returns, or raises what the listing raised
ProducerReturn ==
    /\ InFinally
    /\ threads.producer.sent >= ProducerSentinels(Len(threads.fetchers))
    /\ threads' = [threads EXCEPT
          !.producer.at = IF threads.producer.failed THEN "raised" ELSE "done"]

Producer ==
    /\ pc = "pipeline"
    /\ \/ ProducerPutId
       \/ ProducerListingFails
       \/ ProducerPutSentinel
       \/ ProducerReturn
    /\ PipelineUnchanged

\* fetch_worker: pid = await id_queue.get(); return on None
FetcherGet(w) ==
    /\ threads.fetchers[w].at = "get"
    /\ threads.id_queue # <<>>
    /\ threads' =
          IF Head(threads.id_queue) = None
          THEN [threads EXCEPT !.id_queue = Tail(@),
                               !.unfinished.id_queue = @ - 1,
                               !.fetchers[w].at = "exit"]
          ELSE [threads EXCEPT !.id_queue = Tail(@),
                               !.fetchers[w] = [at |-> "get_page",
                                                pid |-> Head(threads.id_queue)]]

\* fetch_worker: page = await client.get_page(pid): a page, or None or an
\* exception, which are counted as a failed fetch
FetcherGetPage(w) ==
    /\ threads.fetchers[w].at = "get_page"
    /\ \E fetched \in BOOLEAN :
          threads' =
              IF fetched
              THEN [threads EXCEPT !.fetchers[w].at = "put"]
              ELSE [threads EXCEPT
                      !.stats.pages_fetch_failed = @ + 1,
                      !.unfinished.id_queue = @ - 1,
                      !.fetchers[w] = [at |-> "get", pid |-> None]]

\* fetch_worker: await page_queue.put(page); stats["pages_fetched"] += 1
FetcherPut(w) ==
    /\ threads.fetchers[w].at = "put"
    /\ ~Full("page_queue")
    /\ threads' = [threads EXCEPT
          !.page_queue = Append(@, threads.fetchers[w].pid),
          !.unfinished.page_queue = @ + 1,
          !.unfinished.id_queue = @ - 1,
          !.stats.pages_fetched = @ + 1,
          !.queued = @ \cup {threads.fetchers[w].pid},
          !.fetchers[w] = [at |-> "get", pid |-> None]]

Fetcher(w) ==
    /\ pc = "pipeline"
    /\ \/ FetcherGet(w)
       \/ FetcherGetPage(w)
       \/ FetcherPut(w)
    /\ PipelineUnchanged

\* process_worker: page = await page_queue.get(); return on None
ProcessorGet(w) ==
    /\ threads.processors[w].at = "get"
    /\ threads.page_queue # <<>>
    /\ threads' =
          IF Head(threads.page_queue) = None
          THEN [threads EXCEPT !.page_queue = Tail(@),
                               !.unfinished.page_queue = @ - 1,
                               !.processors[w].at = "exit"]
          ELSE [threads EXCEPT
                  !.page_queue = Tail(@),
                  !.processors[w] = [at |-> "process_page",
                                     page |-> Head(threads.page_queue),
                                     error |-> FALSE]]

\* What process_page may do: return the chunks, or raise an exception with
\* a message or with none.
ProcessOutcomes == {"chunks", "message", "no message"}

\* process_worker: await asyncio.to_thread(process_page, page): the chunks,
\* or an exception, which makes a result with error=str(exc); the writer
\* takes it for an error result when that string is not empty
ProcessorProcessPage(w) ==
    /\ threads.processors[w].at = "process_page"
    /\ \E outcome \in ProcessOutcomes :
          threads' =
              IF outcome = "chunks"
              THEN [threads EXCEPT !.processors[w].at = "put"]
              ELSE [threads EXCEPT
                      !.stats.pages_process_failed = @ + 1,
                      !.processors[w].at = "put",
                      !.processors[w].error = (outcome = "message")]

\* process_worker: await result_queue.put(PageResult(...))
ProcessorPut(w) ==
    /\ threads.processors[w].at = "put"
    /\ ~Full("result_queue")
    /\ threads' = [threads EXCEPT
          !.result_queue = Append(@, [page |-> threads.processors[w].page,
                                      error |-> threads.processors[w].error]),
          !.unfinished.result_queue = @ + 1,
          !.unfinished.page_queue = @ - 1,
          !.processors[w] = [at |-> "get", page |-> None, error |-> FALSE]]

Processor(w) ==
    /\ pc = "pipeline"
    /\ \/ ProcessorGet(w)
       \/ ProcessorProcessPage(w)
       \/ ProcessorPut(w)
    /\ PipelineUnchanged

\* writer_task, one iteration: return on None; else the page is counted and
\* written, unless its result is an error or the sink raises
Writer ==
    /\ pc = "pipeline"
    /\ threads.writer = "get"
    /\ threads.result_queue # <<>>
    /\ \E written \in BOOLEAN :
          threads' =
              IF Head(threads.result_queue) = NoneResult
              THEN [threads EXCEPT !.result_queue = Tail(@),
                                   !.unfinished.result_queue = @ - 1,
                                   !.writer = "exit"]
              ELSE [threads EXCEPT
                      !.result_queue = Tail(@),
                      !.unfinished.result_queue = @ - 1,
                      !.stats.pages_processed = @ + 1,
                      !.stats.pages_with_errors =
                          IF Head(threads.result_queue).error THEN @ + 1 ELSE @,
                      !.stats.pages_write_failed =
                          IF ~Head(threads.result_queue).error /\ ~written
                          THEN @ + 1 ELSE @,
                      !.handled[Head(threads.result_queue).page] = @ + 1]
    /\ PipelineUnchanged

AllExited(tasks) == \A w \in DOMAIN tasks : tasks[w].at = "exit"

\* main: await producer
MainAwaitProducer ==
    /\ threads.main = "await_producer"
    /\ threads.producer.at \in {"done", "raised"}
    /\ threads' = [threads EXCEPT
          !.main = IF threads.producer.at = "raised"
                   THEN "finally" ELSE "join_ids",
          !.raised = threads.producer.at = "raised"]

\* main: await id_queue.join()
MainJoinIds ==
    /\ threads.main = "join_ids"
    /\ threads.unfinished.id_queue = 0
    /\ threads' = [threads EXCEPT !.main = "gather_fetchers"]

\* main: await asyncio.gather(*fetchers)
MainGatherFetchers ==
    /\ threads.main = "gather_fetchers"
    /\ AllExited(threads.fetchers)
    /\ threads' = [threads EXCEPT !.main = "sentinels"]

\* main: await page_queue.put(None), once per process worker
MainPutSentinel ==
    /\ threads.main = "sentinels"
    /\ threads.sentinels < Len(threads.processors)
    /\ ~Full("page_queue")
    /\ threads' = [threads EXCEPT !.page_queue = Append(@, None),
                                  !.unfinished.page_queue = @ + 1,
                                  !.sentinels = @ + 1]

\* main: await page_queue.join()
MainJoinPages ==
    /\ threads.main = "sentinels"
    /\ threads.sentinels = Len(threads.processors)
    /\ threads.unfinished.page_queue = 0
    /\ threads' = [threads EXCEPT !.main = "gather_processors"]

\* main: await asyncio.gather(*processors)
MainGatherProcessors ==
    /\ threads.main = "gather_processors"
    /\ AllExited(threads.processors)
    /\ threads' = [threads EXCEPT !.main = "writer_sentinel"]

\* main: await result_queue.put(None)
MainPutWriterSentinel ==
    /\ threads.main = "writer_sentinel"
    /\ ~Full("result_queue")
    /\ threads' = [threads EXCEPT !.result_queue = Append(@, NoneResult),
                                  !.unfinished.result_queue = @ + 1,
                                  !.writer_sentinel = TRUE,
                                  !.main = "join_results"]

\* main: await result_queue.join(); await writer
MainAwaitWriter ==
    /\ threads.main = "join_results"
    /\ threads.unfinished.result_queue = 0
    /\ threads.writer = "exit"
    /\ threads' = [threads EXCEPT !.main = "finally"]

\* main, finally: await sink.close(metadata)
MainClose ==
    /\ threads.main = "finally"
    /\ threads' = [threads EXCEPT !.closed = TRUE, !.main = "closed"]

Cancelled(task) == IF task.at = "exit" THEN task ELSE [task EXCEPT !.at = "cancelled"]

\* The workers that hold an item of their queue: CancelledError passes their
\* finally, which calls task_done() for it.
Holding(tasks) ==
    Cardinality({w \in DOMAIN tasks : tasks[w].at \notin {"get", "exit"}})

\* asyncio.run(main()): main has returned or raised, the tasks that are
\* still pending are cancelled
RunReturns ==
    /\ threads.main = "closed"
    /\ threads' = [threads EXCEPT
          !.main = "terminated",
          !.unfinished.id_queue = @ - Holding(threads.fetchers),
          !.unfinished.page_queue = @ - Holding(threads.processors),
          !.producer = IF @.at \in {"done", "raised"} THEN @
                       ELSE [@ EXCEPT !.at = "cancelled"],
          !.fetchers = [w \in DOMAIN @ |-> Cancelled(@[w])],
          !.processors = [w \in DOMAIN @ |-> Cancelled(@[w])],
          !.writer = IF @ = "exit" THEN @ ELSE "cancelled"]

Main ==
    /\ pc = "pipeline"
    /\ \/ MainAwaitProducer
       \/ MainJoinIds
       \/ MainGatherFetchers
       \/ MainPutSentinel
       \/ MainJoinPages
       \/ MainGatherProcessors
       \/ MainPutWriterSentinel
       \/ MainAwaitWriter
       \/ MainClose
       \/ RunReturns
    /\ PipelineUnchanged

NextPipeline ==
    \/ Producer
    \/ \E w \in WorkerCounts : w \in DOMAIN threads.fetchers /\ Fetcher(w)
    \/ \E w \in WorkerCounts : w \in DOMAIN threads.processors /\ Processor(w)
    \/ Writer
    \/ Main

SpecPipeline == InitPipeline /\ [][NextPipeline]_vars

\* The event loop does not stand still while a task is ready to run.
SpecPipelineFair ==
    /\ InitPipeline
    /\ [][NextPipeline]_vars
    /\ WF_vars(NextPipeline)

(***************************************************************************)
(* Properties                                                              *)
(***************************************************************************)

Built == pc \in {"build", "done"}

\* A block was cut while chunks were packed (a materialized split).
PackCut == \E cut \in cuts : cut.by = "pack"

CoreTexts == JoinSp([k \in 1..Len(chunks) |-> chunks[k].normalized_text])

ParsedTexts == JoinSp([k \in 1..Len(parsed) |-> parsed[k].text])

\* C1 (content preservation): when build_chunks has returned, the core texts
\* of the chunks, concatenated in chunk order, are exactly the word sequence
\* of the extractor's block texts: no word lost, none repeated.
C1_ContentPreserved == pc = "done" => CoreTexts = ParsedTexts

\* C2 (token bound): after both passes every chunk whose initial budget
\* chunk_size - tag_tokens - prev_overlap_tokens - chunk_overlap was positive
\* has count_tokens(embedding_text) <= chunk_size.
C2_TokenBound ==
    pc = "done" =>
        \A k \in 1..Len(chunks) :
            chunks[k].initial_budget > 0 =>
                count_tokens(chunks[k].embedding_text) <= cfg.chunk_size

AllCoreIndices == JoinSp([k \in 1..Len(chunks) |-> chunks[k].core_block_indices])

\* C3 (block boundaries): the cores of the chunks built so far are the
\* consecutive index ranges that cover exactly the blocks 0 .. pos-1 (all
\* blocks once build_chunks returns), every core fragment starts at offset 0
\* of its block and carries the whole current text of the block at its index
\* (so no later split changed a block of an earlier chunk), and no pending
\* remainder is carried from one chunk to the next.
C3_BlockBoundaries ==
    /\ pending = NoPending
    /\ Built =>
        /\ AllCoreIndices = [k \in 1..pos |-> k - 1]
        /\ pc = "done" => pos = Len(blocks)
        /\ \A k \in 1..Len(chunks) :
              /\ Len(chunks[k].core_fragments) = Len(chunks[k].core_block_indices)
              /\ \A f \in 1..Len(chunks[k].core_fragments) :
                    LET frag == chunks[k].core_fragments[f]
                    IN /\ frag.block_index = chunks[k].core_block_indices[f]
                       /\ frag.fragment_start = 0
                       /\ frag.text = At(blocks, frag.block_index).text

\* C3 witness: the page is chunked, a block was split while packing, and a
\* chunk built before the last one exists.
C3_Witness == pc = "done" /\ PackCut /\ Len(chunks) >= 3

NoDuplicates(s) == \A a, b \in 1..Len(s) : s[a] = s[b] => a = b

\* C4 (disjointness): in every chunk no block index is both a core index and
\* a prev- or next-overlap index, and block_indices lists no index twice.
C4_Disjoint ==
    \A k \in 1..Len(chunks) :
        /\ Range(chunks[k].core_block_indices)
              \cap (Range(chunks[k].overlap_prev_block_indices)
                    \cup Range(chunks[k].overlap_next_block_indices)) = {}
        /\ NoDuplicates(chunks[k].block_indices)

\* C4 witness: a returned chunk that has both a prev- and a next-overlap.
C4_Witness ==
    /\ pc = "done"
    /\ \E k \in 1..Len(chunks) :
          /\ chunks[k].overlap_prev_block_indices # <<>>
          /\ chunks[k].overlap_next_block_indices # <<>>

IsPrefix(p, t) == Len(p) <= Len(t) /\ SubSeq(t, 1, Len(p)) = p

IsSuffix(p, t) == Len(p) <= Len(t) /\ SubSeq(t, Len(t) - Len(p) + 1, Len(t)) = p

\* Tokens of the sentence of `text` that holds the word at position p.
SentenceTokensAt(text, p) ==
    LET lo == CHOOSE j \in 1..p :
                  /\ j = 1 \/ EndsSentence(text[j - 1])
                  /\ \A m \in j..(p - 1) : ~EndsSentence(text[m])
        hi == CHOOSE j \in p..Len(text) :
                  /\ j = Len(text) \/ EndsSentence(text[j])
                  /\ \A m \in p..(j - 1) : ~EndsSentence(text[m])
    IN count_tokens(SubSeq(text, lo, hi))

\* A cut of `text` after position p that falls on a sentence boundary.
CutAllowed(text, p) ==
    \/ p = 0 \/ p = Len(text)
    \/ EndsSentence(text[p])

RECURSIVE AlignedPrefix(_, _)
\* t is made of whole leading fragments and at most one leading part of the
\* fragment after them, cut on a sentence boundary.
AlignedPrefix(t, frags) ==
    IF t = <<>> THEN TRUE
    ELSE IF frags = <<>> THEN FALSE
    ELSE LET f == Head(frags).text
         IN IF IsPrefix(f, t)
            THEN AlignedPrefix(SubSeq(t, Len(f) + 1, Len(t)), Tail(frags))
            ELSE IsPrefix(t, f) /\ CutAllowed(f, Len(t))

RECURSIVE AlignedSuffix(_, _)
\* t is made of whole trailing fragments and at most one trailing part of the
\* fragment before them, cut on a sentence boundary.
AlignedSuffix(t, frags) ==
    IF t = <<>> THEN TRUE
    ELSE IF frags = <<>> THEN FALSE
    ELSE LET f == frags[Len(frags)].text
         IN IF IsSuffix(f, t)
            THEN AlignedSuffix(SubSeq(t, 1, Len(t) - Len(f)),
                               SubSeq(frags, 1, Len(frags) - 1))
            ELSE IsSuffix(t, f) /\ CutAllowed(f, Len(f) - Len(t))

\* C5: for adjacent chunks i and i+1 of a page, overlap_next_text of chunk i
\* is a sentence-bounded prefix of the core text of chunk i+1 (whole leading
\* core fragments, then at most one leading part of the next fragment that
\* ends on a sentence boundary), and overlap_prev_text of chunk i+1 is a
\* sentence-bounded suffix of the core text of chunk i (whole trailing core
\* fragments, then at most one trailing part that starts on a sentence
\* boundary).  Either overlap is the text that _collect_overlap_text returns
\* for the core fragments of the neighbouring chunk, read from their start
\* or from their end.
C5_SentenceBounded ==
    (pc = "overlap" /\ call.op = "_collect_overlap_text") =>
        IF call.from_end
        THEN AlignedSuffix(call.result.text, call.source_fragments)
        ELSE AlignedPrefix(call.result.text, call.source_fragments)

\* C5, the failing case: the overlap read from the end of the core fragments
\* 'ab.' and 'ar as' followed by the word of 201 characters, under
\* chunk_overlap = 2, is the first 200 characters of that word, which the
\* core text does not end with.
C5_Witness ==
    /\ pc = "overlap"
    /\ call.op = "_collect_overlap_text"
    /\ call.from_end
    /\ cfg.chunk_overlap = 2
    /\ Len(call.source_fragments) = 2
    /\ call.source_fragments[1].text = ShapeText(0, 0, <<1>>)
    /\ call.source_fragments[2].text = ShapeText(1, 0, <<-2>>) \o <<-5>>
    /\ call.result.text = <<-6>>
    /\ ~IsSuffix(call.result.text,
                 JoinSp([k \in 1..2 |-> call.source_fragments[k].text]))

\* C6: in every chunk the previous-overlap text and the next-overlap text
\* each count at most chunk_overlap tokens.
C6_OverlapSize ==
    \A k \in 1..Len(chunks) :
        /\ count_tokens(chunks[k].overlap_prev_text) <= cfg.chunk_overlap
        /\ count_tokens(chunks[k].overlap_next_text) <= cfg.chunk_overlap

\* C7: in the block list of the extractor, of the normalizer and after every
\* materialized split, the block at position k has index k and the id of k.
C7_IndexContiguity ==
    \A k \in 1..Len(blocks) : blocks[k].index = k - 1 /\ blocks[k].id = k - 1

\* A split was materialized in front of a heading that has a child block.
C7_Witness ==
    \E cut \in cuts :
        /\ cut.by = "pack"
        /\ \E k, j, m \in 1..Len(blocks) :
              /\ k < j /\ j < m
              /\ blocks[k].text[Len(blocks[k].text)] = cut.left
              /\ blocks[j].block_type \in heading_tags
              /\ blocks[m].parent_heading_id = blocks[j].id

\* C8: after extraction, normalization and every materialized split the
\* first block is at offset 0 and each block starts one character after the
\* end of the block before it.
C8_OffsetContiguity ==
    /\ blocks # <<>> => blocks[1].text_offset = 0
    /\ \A k \in 1..(Len(blocks) - 1) :
          blocks[k + 1].text_offset
              = blocks[k].text_offset + StrLen(blocks[k].text) + 1

\* A split was materialized and a block follows the remainder.
C8_Witness ==
    \E cut \in cuts :
        /\ cut.by = "pack"
        /\ \E k \in 1..(Len(blocks) - 2) :
              /\ blocks[k].text[Len(blocks[k].text)] = cut.left
              /\ blocks[k + 1].text[1] = cut.right
              /\ blocks[k + 2].text_offset > 0

\* C9: after normalization the block at which build_chunks starts an empty
\* chunk counts no more tokens than the content budget of that chunk, and no
\* split is ever made with must_take = True.
C9_NormalizerGuarantee ==
    /\ (pc = "build" /\ pos < Len(blocks)) =>
          count_tokens(At(blocks, pos).text)
              <= ChunkStart(cfg, blocks, pos,
                            _build_heading_idx_from_blocks(blocks), chunks).bud.budget
    /\ \A cut \in cuts : cut.by = "pack" => ~cut.must_take

\* Position in cut.whole of the last word before the cut.
CutPos(cut) == CHOOSE p \in 1..Len(cut.whole) : cut.whole[p] = cut.left

\* C10: every cut made by normalization or packing lies on a sentence
\* boundary, unless it lies inside one sentence that alone counts more tokens
\* than the content budget of the empty chunk; a cut made once the chunk
\* holds content (must_take = False) always lies on a sentence boundary.
C10_SentenceIntegrity ==
    \A cut \in cuts :
        /\ ~cut.must_take => EndsSentence(cut.left)
        /\ ~EndsSentence(cut.left) =>
              SentenceTokensAt(cut.whole, CutPos(cut)) > cut.budget

C10_Witness ==
    /\ \E cut \in cuts : ~cut.must_take /\ EndsSentence(cut.left)
    /\ \E cut \in cuts : cut.must_take /\ ~EndsSentence(cut.left)

\* C11: every part returned by split_text(text, max_tokens) counts at most
\* max_tokens tokens, for every text and every max_tokens >= 1.
C11_PartsWithinLimit ==
    call.op = "split_text" =>
        \A k \in 1..Len(call.result) :
            count_tokens(call.result[k]) <= call.max_tokens

\* The first sentence of a non-empty text.
FirstSentence(text) == split_into_sentences(text)[1]

\* C12: take_prefix returns a prefix of whole leading sentences that counts
\* at most max_tokens tokens; when the first sentence alone exceeds
\* max_tokens the prefix is empty and the remainder the whole text with
\* must_take = False, and a non-empty prefix of that sentence, cut between
\* two words, with must_take = True.
C12_TakePrefixDualMode ==
    (call.op = "take_prefix" /\ call.text # <<>>) =>
        LET prefix == call.result[1]
            remainder == call.result[2]
        IN IF count_tokens(FirstSentence(call.text)) > call.max_tokens
           THEN IF call.must_take
                THEN prefix # <<>> /\ IsPrefix(prefix, FirstSentence(call.text))
                ELSE prefix = <<>> /\ remainder = call.text
           ELSE /\ IsPrefix(prefix, call.text)
                /\ CutAllowed(call.text, Len(prefix))
                /\ count_tokens(prefix) <= call.max_tokens

\* One iteration of the loop of build_chunks: a chunk with at least one core
\* block is appended and the cursor moves forward, or the page is ended and
\* every block from the cursor on is empty.
ChunkOrEnd ==
    \/ /\ Len(chunks') = Len(chunks) + 1
       /\ chunks'[Len(chunks')].core_block_indices # <<>>
       /\ pos' > pos
    \/ /\ chunks' = chunks
       /\ pos' >= Len(blocks')
       /\ \A k \in (pos + 1)..Len(blocks) : blocks[k].text = <<>>

\* The work left to the loop of build_chunks: the blocks from the cursor on
\* and their words.
RECURSIVE Remaining(_, _)
Remaining(bs, p) ==
    IF p >= Len(bs) THEN 0
    ELSE 1 + Len(bs[p + 1].text) + Remaining(bs, p + 1)

\* C13: every iteration of the loop of build_chunks appends a chunk with a
\* core block and advances the cursor, or ends the page with nothing but
\* empty blocks left; and each iteration leaves strictly less work than it
\* found, so that the loop ends after finitely many iterations.
C13_Progress ==
    [][(pc = "build" /\ pc' = "build") =>
            /\ ChunkOrEnd
            /\ Remaining(blocks', pos') < Remaining(blocks, pos)]_vars

\* A page is chunked although one chunk lost its budget to the overlap or the
\* tags and one block had to be cut by force.
C13_Witness ==
    /\ pc = "done"
    /\ \E k \in 1..Len(chunks) : chunks[k].initial_budget <= 0
    /\ \E cut \in cuts : cut.by = "pack" /\ cut.must_take

\* The hierarchy h starts with the heading block b: with its text, or, when
\* the block was cut after the chunk was started, with the text it had then.
StartsWithHeading(h, b) ==
    h # <<>> /\ IsPrefix(b.text, h[1])

\* C14: a chunk whose first core block is a heading block has a full and a
\* truncated heading hierarchy that both start with the text of that heading,
\* whatever the overlap setting.
C14_HeadingFirst ==
    \A k \in 1..Len(chunks) :
        LET first == At(blocks, chunks[k].core_block_indices[1])
        IN first.block_type \in heading_tags =>
              /\ StartsWithHeading(chunks[k].full_heading_hierarchy, first)
              /\ StartsWithHeading(chunks[k].text_heading_hierarchy, first)

\* C15: with chunk_overlap > 0, when the first paragraph of the page (block
\* 0) is in the core of the first chunk, the second chunk starts with a later
\* paragraph and its budget was not degraded, the overlap_prev_text of the
\* second chunk is not empty and is a tail of the core text of the first.
C15_PrevOverlapPresent ==
    (/\ cfg.chunk_overlap > 0
     /\ Len(chunks) >= 2
     /\ At(blocks, 0).block_type = "p"
     /\ chunks[1].core_block_indices[1] = 0
     /\ At(blocks, chunks[2].core_block_indices[1]).block_type = "p"
     /\ chunks[2].initial_budget > 0) =>
        /\ chunks[2].overlap_prev_text # <<>>
        /\ IsSuffix(chunks[2].overlap_prev_text, chunks[1].normalized_text)

\* The core text of chunk c starts or ends inside a block of the extractor.
MidBlock(c) ==
    \/ \A k \in 1..Len(parsed) : parsed[k].text[1] # c.normalized_text[1]
    \/ \A k \in 1..Len(parsed) :
          parsed[k].text[Len(parsed[k].text)]
              # c.normalized_text[Len(c.normalized_text)]

\* The first and the last core block index of chunk c.
ChunkIdBase(c) ==
    <<c.core_block_indices[1], c.core_block_indices[Len(c.core_block_indices)]>>

ChunkIdsDistinct ==
    \A k, j \in 1..Len(chunks) : k # j => chunks[k].chunk_id # chunks[j].chunk_id

\* C16: the chunk_ids of a page are pairwise distinct, each is made of the
\* first and the last core block index, and a chunk that starts or ends in
\* the middle of a block that the extractor emitted, as the chunks of an
\* oversized block do, has the character offsets of its core text appended.
C16_ChunkIdSuffix ==
    /\ ChunkIdsDistinct
    /\ \A k \in 1..Len(chunks) :
          chunks[k].chunk_id =
              IF MidBlock(chunks[k])
              THEN ChunkIdBase(chunks[k])
                   \o <<chunks[k].text_offset_start,
                        chunks[k].text_offset_start + chunks[k].text_length>>
              ELSE ChunkIdBase(chunks[k])

\* C17: two calls of process_page on the same page under the same settings
\* return the same chunks and leave the same blocks, whichever pages the
\* thread processed before and however the other thread was interleaved.
C17_Determinism ==
    threads.on =>
        \A i, j \in 1..Len(threads.results) :
            threads.results[i].page = threads.results[j].page =>
                /\ threads.results[i].chunks = threads.results[j].chunks
                /\ threads.results[i].blocks = threads.results[j].blocks

\* The same page was processed as the first page of a thread and as a later
\* one, once while the other thread ran in between.
C17_Witness ==
    /\ threads.on
    /\ \E i, j \in 1..Len(threads.results) :
          /\ threads.results[i].page = threads.results[j].page
          /\ threads.results[i].nth = 0
          /\ threads.results[j].nth > 0
          /\ threads.results[j].preempted
          /\ threads.results[j].chunks # <<>>

\* The text nodes of the nodes `nodes`, in order.
RECURSIVE TextNodesOf(_)
TextNodesOf(nodes) ==
    IF nodes = <<>> THEN <<>>
    ELSE (IF Head(nodes).tag = "#text" THEN Head(nodes).text[1] ELSE <<>>)
         \o TextNodesOf(Tail(nodes))

\* The text nodes of a node and of all nodes below it, in reading order.
NodeAtoms(node) == TextNodesOf(<<node>> \o DescendantsOf(node.kids))

\* The text nodes written in a text, in order; the "|" is none.
RECURSIVE AtomsOfText(_)
AtomsOfText(text) ==
    IF text = <<>> THEN <<>>
    ELSE (IF Head(text) = <<0>> THEN <<>> ELSE Head(text))
         \o AtomsOfText(Tail(text))

\* The child nodes `kids` without the tables among them and below them.
RECURSIVE WithoutTables(_)
WithoutTables(kids) ==
    IF kids = <<>> THEN <<>>
    ELSE (IF Head(kids).tag = "table" THEN <<>>
          ELSE <<[Head(kids) EXCEPT !.kids = WithoutTables(Head(kids).kids)]>>)
         \o WithoutTables(Tail(kids))

\* The text of a cell that belongs to the row of the cell itself.
OwnCellText(cell) == _extract_text([cell EXCEPT !.kids = WithoutTables(cell.kids)])

\* The ' | '-joined text of the direct cells of a row, nested tables left out.
OwnRowText(row) ==
    JoinBar(SelectSeq([k \in 1..Len(FindAll(row, {"td", "th"})) |->
                          OwnCellText(FindAll(row, {"td", "th"})[k])],
                      LAMBDA t : t # <<>>))

\* Every row of every table of the page, in reading order.
TableRows == SelectSeq(DescendantsOf(call.dom.kids), LAMBDA n : n.tag = "tr")

\* C18: every row of every table that has text becomes exactly one block,
\* whose text is the ' | '-joined text of the direct cells of that row, and
\* every tr block is the block of one row: it holds no text of another row
\* and none of the rows of a table nested in one of its cells.
C18_TableRows ==
    call.op = "parse" =>
        /\ \A k \in 1..Len(TableRows) :
              OwnRowText(TableRows[k]) # <<>> =>
                  Cardinality({j \in 1..Len(call.result) :
                      /\ call.result[j].block_type = "tr"
                      /\ call.result[j].text = OwnRowText(TableRows[k])}) = 1
        /\ \A j \in 1..Len(call.result) :
              call.result[j].block_type = "tr" =>
                  \E k \in 1..Len(TableRows) :
                      call.result[j].text = OwnRowText(TableRows[k])

\* The runs of the child nodes `kids` between the children with a tag of
\* `seps`: the text nodes of each run, `run` being the run at hand.
RECURSIVE RunsOf(_, _, _)
RunsOf(kids, seps, run) ==
    IF kids = <<>> THEN <<run>>
    ELSE IF Head(kids).tag \in seps
         THEN <<run>> \o RunsOf(Tail(kids), seps, <<>>)
    ELSE RunsOf(Tail(kids), seps, run \o NodeAtoms(Head(kids)))

\* A run with text is the text of a block of its own, of the given type.
OwnBlock(run, block_type) ==
    run # <<>> =>
        \E j \in 1..Len(call.result) :
            /\ call.result[j].block_type = block_type
            /\ AtomsOfText(call.result[j].text) = run

\* The blocks with text of the child are blocks of that child alone.
ByRecursion(child) ==
    \A j \in 1..Len(call.result) :
        Range(AtomsOfText(call.result[j].text)) \cap Range(NodeAtoms(child)) # {}
            => Range(AtomsOfText(call.result[j].text))
                   \subseteq Range(NodeAtoms(child))

\* The element has children with a tag of `seps`: every run of text between
\* them is a block of the type of the element, every such child is emitted
\* by itself.
RunsEmitted(element, seps) ==
    (\E k \in 1..Len(element.kids) : element.kids[k].tag \in seps) =>
        /\ \A r \in 1..Len(RunsOf(element.kids, seps, <<>>)) :
              OwnBlock(RunsOf(element.kids, seps, <<>>)[r], element.tag)
        /\ \A k \in 1..Len(element.kids) :
              element.kids[k].tag \in seps => ByRecursion(element.kids[k])

\* The text nodes of the blocks, block after block.
RECURSIVE BlockAtoms(_)
BlockAtoms(bs) ==
    IF bs = <<>> THEN <<>>
    ELSE AtomsOfText(Head(bs).text) \o BlockAtoms(Tail(bs))

\* Every text node of the page is in the blocks once, in reading order.
ReadingOrder == BlockAtoms(call.result) = NodeAtoms(call.dom)

\* The elements of the page below its body.
PageNodes == DescendantsOf(call.dom.kids)

\* The tags _process_block treats as a leaf or as mixed content.
ContainerTags == block_tags \ ({"ul", "ol", "table"} \cup heading_tags)

\* C19: in every list item and every container with block-level
\* children (nested lists, paragraphs), each run of free text before, between
\* and after these children is a block of the parent's type, each such child
\* is emitted by recursion, and the blocks hold every text node once, in
\* reading order.
C19_BlockChildRuns ==
    call.op = "parse" =>
        /\ ReadingOrder
        /\ \A n \in 1..Len(PageNodes) :
              PageNodes[n].tag \in {"li"} \cup ContainerTags =>
                  RunsEmitted(PageNodes[n], block_tags)

\* C20: when the configured sentence splitter (razdel, spacy) or the exact
\* tokenizer cannot be loaded, the simple backend is used in its place:
\* split_into_sentences returns what the regex splitter returns, the strategy
\* and the token counter are the simple ones, and nothing is raised.
C20_BackendFallback ==
    /\ (/\ call.op = "split_into_sentences"
        /\ \/ call.env.SENTENCE_SPLITTER = "razdel" /\ ~call.env.razdel
           \/ call.env.SENTENCE_SPLITTER = "spacy" /\ ~call.env.spacy) =>
            call.result = _split_sentences_regex(call.text)
    /\ (/\ call.op = "get_chunking_strategy"
        /\ call.env.CHUNKING_STRATEGY = "tokenizer"
        /\ ~(call.env.transformers /\ call.env.tokenizer = "loads")) =>
            call.result = [raised |-> "", strategy |-> "simple"]
    /\ (/\ call.op = "from_settings"
        /\ call.env.TOKEN_COUNT_STRATEGY = "hf"
        /\ ~(call.env.transformers /\ call.env.tokenizer = "loads")) =>
            call.result = [raised |-> "", strategy |-> "simple"]

InvalidSizes(chunk_size, chunk_overlap) ==
    chunk_size <= 0 \/ chunk_overlap < 0 \/ chunk_overlap >= chunk_size

\* C21: a configuration with chunk_size <= 0, chunk_overlap < 0,
\* chunk_overlap >= chunk_size or an unknown strategy name is rejected with
\* an error before any page is fetched, parsed or chunked: under such a
\* configuration no page is fetched or processed, the pipeline of main()
\* is not started and no Chunker is made.
C21_ConfigFailFast ==
    (/\ pc = "config"
     /\ \/ InvalidSizes(call.settings.CHUNK_SIZE, call.settings.CHUNK_OVERLAP)
        \/ call.settings.CHUNKING_STRATEGY \notin {"simple", "tokenizer"}) =>
        /\ call.op \notin {"pipeline", "Chunker"}
        /\ call.fetched = 0
        /\ call.processed = 0

\* C21, the failing case: run_pipeline under chunk_size_tokens = 2 and
\* chunk_overlap_tokens = 3 has fetched the two pages of the run when the
\* constructor of Chunker raises.
C21_Witness ==
    /\ pc = "config"
    /\ call.op = "ValueError"
    /\ call.settings.CHUNK_SIZE = 2
    /\ call.settings.CHUNK_OVERLAP = 3
    /\ call.page_ids = 2
    /\ call.fetched = 2
    /\ call.result.raised

BuildStep == pc = "build" /\ pos < Len(blocks) /\ pos' # pos

\* The budgets of lines 553-562 in the order they are tried, for the tag
\* tokens, the prev-overlap tokens and the reserve of a chunk.
BudgetSteps(c, tags_tokens, ov_prev_tokens) ==
    LET reserve == IF c.chunk_overlap > 0 THEN c.chunk_overlap ELSE 0
    IN <<c.chunk_size - tags_tokens - ov_prev_tokens - reserve,
         c.chunk_size - tags_tokens - reserve,
         c.chunk_size - tags_tokens>>

\* The degradation order for the start cstart of a chunk, with `floor` as
\* the last resort, and what the chunk stored by the step shows of it.
DegradesInOrder(cstart, steps, floor) ==
    /\ cstart.bud.budget > 0
    /\ cstart.bud.budget = IF steps[1] > 0 THEN steps[1]
                           ELSE IF steps[2] > 0 THEN steps[2]
                           ELSE IF steps[3] > 0 THEN steps[3]
                           ELSE floor
    /\ Len(chunks') > Len(chunks) =>
          IF steps[1] > 0
          THEN /\ chunks'[Len(chunks')].overlap_prev_text = cstart.ov.text
               /\ chunks'[Len(chunks')].overlap_prev_block_indices =
                      SelectSeq(cstart.ov.indices,
                          LAMBDA x : x \notin
                              Range(chunks'[Len(chunks')].core_block_indices))
          ELSE /\ chunks'[Len(chunks')].overlap_prev_text = <<>>
               /\ chunks'[Len(chunks')].overlap_prev_block_indices = <<>>

DegradesFrom(cstart, floor) ==
    DegradesInOrder(cstart,
        BudgetSteps(cfg, cstart.tags.tokens, count_tokens(cstart.ov.text)),
        floor)

\* C22 as stated: a budget <= 0 is degraded in order (prev-overlap dropped,
\* then the reserve, then the floor) and the floor is chunk_size / 4.
C22_BudgetFloorQuarter ==
    [][BuildStep =>
          DegradesFrom(ChunkStart(cfg, blocks, pos,
                                  _build_heading_idx_from_blocks(blocks), chunks),
                       cfg.chunk_size \div 4)]_vars

\* C22: when chunk_size - tag_tokens - prev_overlap_tokens - reserve <= 0,
\* _build_one_chunk first drops the prev-overlap (the chunk has empty
\* overlap_prev_text and overlap_prev_block_indices), only if the budget is
\* still <= 0 drops the reserve, and only if it is still <= 0 sets the budget
\* to max(10, chunk_size // 4); the budget used for packing is always > 0,
\* and a chunk whose initial budget is > 0 keeps its prev-overlap and reserve.
C22_BudgetDegradation ==
    [][BuildStep =>
          DegradesFrom(ChunkStart(cfg, blocks, pos,
                                  _build_heading_idx_from_blocks(blocks), chunks),
                       Max(MinBudget, cfg.chunk_size \div 4))]_vars

\* A chunk whose tags alone fill the chunk size was built with the floor as
\* its budget, after a chunk that left it a prev-overlap to drop.
C22_Witness ==
    \E k \in 2..Len(chunks) :
        /\ cfg.chunk_overlap > 0
        /\ chunks[k].initial_budget <= 0
        /\ chunks[k].overlap_prev_text = <<>>
        /\ chunks[k].overlap_prev_fragments # <<>>
        /\ count_tokens(chunks[k].embedding_text)
              - count_tokens(chunks[k].full_text) >= cfg.chunk_size

\* The block of the extractor that the words of block b come from.
OriginOf(b) ==
    CHOOSE q \in 1..Len(parsed) :
        \E i \in 1..Len(parsed[q].text) :
            parsed[q].text[i] \div 2 = b.text[1] \div 2

\* Block b refers to the heading block that block o of the extractor
\* referred to: same level and text, current id, smaller index.
SameHeading(b, o) ==
    IF o.parent_heading_id = NoId THEN b.parent_heading_id = NoId
    ELSE /\ b.parent_heading_id \in 0..(b.index - 1)
         /\ At(blocks, b.parent_heading_id).id = b.parent_heading_id
         /\ At(blocks, b.parent_heading_id).block_type =
                At(parsed, o.parent_heading_id).block_type
         /\ At(blocks, b.parent_heading_id).text =
                At(parsed, o.parent_heading_id).text

\* C23: after normalize_blocks_for_chunking and after every materialized
\* split, every block's non-null parent_heading_id is the current id of the
\* heading block (same level and text) it referred to before, that heading
\* has a smaller index than the block, and every HeadingInfo returned by the
\* normalizer has the block_index and block_id of its heading block.
C23_HeadingRefs ==
    pc \in {"build", "done"} =>
        /\ \A k \in 1..Len(blocks) :
              SameHeading(blocks[k], parsed[OriginOf(blocks[k])])
        /\ (pc = "build" /\ pos = 0) =>
              \A k \in 1..Len(headings) :
                  /\ headings[k].block_index \in 0..(Len(blocks) - 1)
                  /\ At(blocks, headings[k].block_index).id = headings[k].block_id
                  /\ At(blocks, headings[k].block_index).block_type \in heading_tags
                  /\ HeadingLevel(At(blocks, headings[k].block_index).block_type)
                        = headings[k].level
                  /\ At(blocks, headings[k].block_index).text = headings[k].text

\* The heading blocks before block j (0-based) with a level smaller than
\* `level`.
HeadingsAbove(j, level) ==
    {i \in 0..(j - 1) :
        /\ At(blocks, i).block_type \in heading_tags
        /\ HeadingLevel(At(blocks, i).block_type) < level}

SetMax(S) == CHOOSE x \in S : \A y \in S : y <= x

RECURSIVE ClimbOf(_)
\* The indices of the climb that starts at heading block j.
ClimbOf(j) ==
    <<j>> \o
    (IF HeadingsAbove(j, HeadingLevel(At(blocks, j).block_type)) = {}
     THEN <<>>
     ELSE ClimbOf(SetMax(HeadingsAbove(j, HeadingLevel(At(blocks, j).block_type)))))

ClimbTexts(climb) == [k \in 1..Len(climb) |-> At(blocks, climb[k]).text]

ClimbLevels(climb) ==
    [k \in 1..Len(climb) |-> HeadingLevel(At(blocks, climb[k]).block_type)]

\* C24: for a first block that is not a heading and names a parent heading,
\* the hierarchy starts at that heading and goes on with the heading of the
\* greatest block index among those of strictly smaller level and strictly
\* smaller block index, until there is none; the levels strictly decrease
\* along it, and the text hierarchy is its first max_heading_levels entries.
C24_HeadingClimb ==
    (/\ pc = "resolved"
     /\ call.first.block_type \notin heading_tags
     /\ call.first.parent_heading_id # NoId) =>
        /\ call.result[1] = ClimbTexts(ClimbOf(call.first.parent_heading_id))
        /\ \A k \in 1..(Len(call.result[1]) - 1) :
              ClimbLevels(ClimbOf(call.first.parent_heading_id))[k + 1]
                  < ClimbLevels(ClimbOf(call.first.parent_heading_id))[k]
        /\ call.result[2] = FirstN(call.result[1], call.max_heading_levels)

\* A paragraph under three nested headings, with a heading in between that
\* the climb passes over, resolved with fewer levels than the climb has.
C24_Witness ==
    /\ pc = "resolved"
    /\ call.first.block_type \notin heading_tags
    /\ call.first.parent_heading_id # NoId
    /\ Len(call.result[1]) = 3
    /\ Len(call.result[2]) < 3
    /\ Len(headings) > 3

StackLevelsIncrease(stack) ==
    \A k \in 1..(Len(stack) - 1) : stack[k].level < stack[k + 1].level

\* C25: after any sequence of headings the heading stack has strictly
\* increasing levels from bottom to top and its top is the heading processed
\* last; pushing a heading of level L removes exactly the stacked headings
\* with level >= L; and every non-heading block emitted gets as its
\* parent_heading_id the id of the stack top, none when the stack is empty.
C25_HeadingStack ==
    [][pc = "headings" =>
        /\ StackLevelsIncrease(_heading_stack')
        /\ headings' # <<>> =>
              /\ _heading_stack' # <<>>
              /\ _heading_stack'[Len(_heading_stack')] = headings'[Len(headings')]
        /\ headings' # headings =>
              _heading_stack' =
                  Append(SelectSeq(_heading_stack,
                             LAMBDA h : h.level < headings'[Len(headings')].level),
                         headings'[Len(headings')])
        /\ (blocks' # blocks /\ headings' = headings) =>
              blocks'[Len(blocks')].parent_heading_id =
                  IF _heading_stack = <<>> THEN NoId
                  ELSE _heading_stack[Len(_heading_stack)].block_id]_vars

\* A heading was pushed that took two headings off a stack of three, and a
\* paragraph was emitted under it.
C25_Witness ==
    /\ pc = "headings"
    /\ Len(headings) = 4
    /\ Len(_heading_stack) = 2
    /\ headings[3].level > headings[2].level
    /\ headings[2].level > headings[1].level
    /\ Len(blocks) = 5
    /\ blocks[5].block_type = "p"
    /\ blocks[5].parent_heading_id = headings[4].block_id

\* C26: under any interleaving of the worker threads, _get_strategy never
\* hands the same strategy instance to two different threads, and the
\* instance a call returns was made for the strategy name that
\* settings.CHUNKING_STRATEGY had when the call read it.
C26_PerWorkerStrategy ==
    pc = "get_strategy" =>
        /\ \A a, b \in threads.handed :
              a.instance = b.instance => a.thread = b.thread
        /\ \A a \in threads.handed :
              threads.made[a.instance] = a.cur_name

\* Both threads were handed an instance, one of them had its cached
\* instance replaced after the setting changed, and a call has raised
\* instead of returning one.
C26_Witness ==
    /\ pc = "get_strategy"
    /\ threads.raised # {}
    /\ \E a, b \in threads.handed : a.thread # b.thread
    /\ \E a, b \in threads.handed :
          /\ a.thread = b.thread
          /\ a.instance # b.instance
          /\ a.cur_name # b.cur_name
    /\ \E a, b \in threads.handed :
          /\ a.thread = b.thread
          /\ a.instance = b.instance
          /\ threads.calls[a.thread] > 1

\* C27: for every text, every max_tokens >= 1 and both values of must_take,
\* the words of the prefix that take_prefix returns followed by the words of
\* the remainder are exactly the words of the text, in the same order.
C27_TakePrefixConserves ==
    (call.op = "take_prefix" /\ call.max_tokens >= 1) =>
        call.result[1] \o call.result[2] = call.text

\* C28: for every sequence of headings of levels 1 to 6, the hierarchy that
\* the resolver computes for the heading pushed last, over the heading index
\* of the blocks, is the heading stack of the extractor right after the
\* push, read from top to bottom.
C28_ResolverMatchesStack ==
    (/\ pc = "resolved"
     /\ call.first.block_type \in heading_tags
     /\ call.first.index = Len(blocks) - 1) =>
        call.result[1] = ChainTexts(Reverse(_heading_stack))

\* The heading pushed last took a heading off the stack and has two
\* ancestors left, with a paragraph between the headings.
C28_Witness ==
    /\ pc = "resolved"
    /\ call.first.block_type \in heading_tags
    /\ call.first.index = Len(blocks) - 1
    /\ Len(call.result[1]) = 3
    /\ Len(headings) = 4
    /\ \E k \in 1..Len(blocks) : blocks[k].block_type = "p"


\* On the id queue no page id stands behind a sentinel.
SentinelsLast(queue) ==
    \A i \in 1..Len(queue) : \A j \in 1..Len(queue) :
        (i < j /\ queue[i] = None) => queue[j] = None

\* Every task of the pipeline has returned or was cancelled.
NoTaskLeft ==
    /\ threads.producer.at \in {"done", "raised", "cancelled"}
    /\ \A w \in DOMAIN threads.fetchers :
          threads.fetchers[w].at \in {"exit", "cancelled"}
    /\ \A w \in DOMAIN threads.processors :
          threads.processors[w].at \in {"exit", "cancelled"}
    /\ threads.writer \in {"exit", "cancelled"}

ShutdownOrder ==
    /\ SentinelsLast(threads.id_queue)
    /\ threads.producer.at \in {"done", "raised"} =>
          /\ threads.producer.sent = Len(threads.fetchers)
          /\ threads.producer.failed \/ threads.producer.next = threads.n + 1
    /\ threads.sentinels > 0 => AllExited(threads.fetchers)
    /\ threads.writer_sentinel => AllExited(threads.processors)
    /\ threads.main = "terminated" => NoTaskLeft

\* C29: the pipeline terminates under fair scheduling, for every number of
\* page ids, of fetch and process workers, every queue size and every pattern
\* of failures: the producer puts exactly one sentinel per fetch worker after
\* the last id, also when the listing of the ids fails; the sentinels of the
\* process workers are put only after all fetch workers have exited, the
\* sentinel of the writer only after all process workers have exited; every
\* task ends, none waits forever on a full or an empty queue.
C29_PipelineShutdown ==
    /\ [](pc = "pipeline" => ShutdownOrder)
    /\ <>(pc = "pipeline" /\ threads.main = "terminated")

C29_Witness ==
    /\ pc = "pipeline"
    /\ threads.main = "terminated"
    /\ ~threads.raised
    /\ Len(threads.fetchers) = 2
    /\ Len(threads.processors) = 2
    /\ \A queue \in DOMAIN threads.maxsize : threads.maxsize[queue] = 1
    /\ threads.stats.page_ids = MaxPageIds
    /\ threads.stats.pages_fetch_failed > 0
    /\ threads.stats.pages_with_errors + threads.stats.pages_write_failed > 0
    /\ AllExited(threads.fetchers)
    /\ AllExited(threads.processors)
    /\ threads.writer = "exit"

\* C30: every page that a fetch worker put on the page queue is handled by
\* the writer exactly once, written or counted as an error page, before the
\* sink is closed; when the sink is closed pages_processed = pages_fetched
\* and page_ids = pages_fetched + pages_fetch_failed.
C30_PagesReachWriter ==
    (pc = "pipeline" /\ threads.closed) =>
        /\ \A page \in threads.queued : threads.handled[page] = 1
        /\ threads.stats.pages_processed = threads.stats.pages_fetched
        /\ threads.stats.page_ids =
               threads.stats.pages_fetched + threads.stats.pages_fetch_failed

====
